---- MODULE Spec2Model ----
(***************************************************************************)
(* State-machine model of the blitz_games program                          *)
(* (src/programs/blitz_games/src/lib.rs).                                  *)
(*                                                                         *)
(* Amounts.  TLC integers are 32 bits wide, the program's lamport amounts  *)
(* are u64 (5 SOL = 5_000_000_000 lamports does not fit).  The model is    *)
(* the program with every lamport constant divided by 100_000: an amount   *)
(* of 1 here stands for 0.0001 SOL, 1 SOL = 10_000, the 0.01 SOL minimum   *)
(* bet = 100.  Every lamport constant of the source is a multiple of       *)
(* 100_000.  Integer divisions round down to one unit of the model where   *)
(* the program rounds down to one lamport.  Percentages, slots and seconds *)
(* are unscaled.  Amounts stay far below 2^64, so saturating_add and       *)
(* saturating_mul never saturate; saturating_sub is modelled exactly.      *)
(*                                                                         *)
(* Instructions.  Every handler is an operator from the accounts it may    *)
(* write to a result: Ok with the accounts as written, or an error with    *)
(* the accounts as written up to the failing line.  Host is the runtime:   *)
(* it keeps the writes of Ok and drops those of an error.  migrate_pool    *)
(* is left out: on a pool created by initialize (old_size = new_size) it   *)
(* writes nothing.                                                         *)
(*                                                                         *)
(* Specifications.                                                         *)
(*   Spec       every instruction, a few inputs each, MaxSteps deep        *)
(*   SpecDrain  one bet stays pending while the authority withdraws 20%    *)
(*              of the pool every 48 hours                                 *)
(*   SpecRun    many bets at the payout cap pending at once on a 50 SOL    *)
(*              pool, revealed and refunded in order                       *)
(*   SpecRisk   fund_pool and place_bet over pools and bets around every   *)
(*              tier boundary                                              *)
(*   SpecPure   the resolvers and get_worst_payout over configs and seeds  *)
(* In every specification a rejected instruction is recorded in `last`     *)
(* and explored no further: it left the accounts as they were, and every   *)
(* continuation is explored from the state before it.                      *)
(***************************************************************************)
EXTENDS Integers, Sequences, FiniteSets, TLC

\* ------------------------------------------------------------------------
\* Program constants (lamport amounts in units of 100_000 lamports)
\* ------------------------------------------------------------------------
REVEAL_WINDOW == 1000
TIMELOCK_SECS == 172800
AUTH_TIMELOCK == 259200
MIN_POOL == 1000
JACKPOT_MIN_BET == 200
JACKPOT_MIN_POOL == 1000
JACKPOT_RATE == 43
JACKPOT_BASE == 10000
\* JACKPOT_RATE / JACKPOT_BASE is applied to a bet in lamports and compared with
\* a raw 32-bit draw: a bet of b units is b * (100000 / JACKPOT_BASE) * JACKPOT_BASE
\* lamports
UNITS_TO_JACKPOT_BASE == 100000 \div JACKPOT_BASE
\* (u32::MAX as u64) / 200
JACKPOT_ROLL_CAP == 21474836
MIN_BET == 100
GRACE_SLOTS == 200
SLOT_HASH_WINDOW == 512
REF_MIN_BALANCE == 500
REF_MIN_COMMISSION == 10
FIVE_SOL == 50000
TWENTY_SOL == 200000
FIFTY_SOL == 500000
HARD_CAP == 250000
MICRO_BET == 500
SCALED_BET_MAX == 5000
MAX_SESSION_SECS == 86400
MAX_GAS == 100
\* Rent::minimum_balance of the pool account and of a GameSession account
POOL_RENT == 21
SESSION_RENT == 19

\* ------------------------------------------------------------------------
\* u64 helpers
\* ------------------------------------------------------------------------
Min(a, b) == IF a <= b THEN a ELSE b
Max(a, b) == IF a >= b THEN a ELSE b
saturating_sub(a, b) == IF a >= b THEN a - b ELSE 0
saturating_add(a, b) == a + b
saturating_mul(a, b) == a * b
abs_diff(a, b) == IF a >= b THEN a - b ELSE b - a
\* saturating_mul(a, b) / c = floor(a * b / c), computed without forming a * b
\* (which may pass TLC's 2^31): a * b = a * (b div c) * c + a * (b mod c)
MulDiv(a, b, c) == a * (b \div c) + (a * (b % c)) \div c

\* ------------------------------------------------------------------------
\* Seeds: 32 bytes, byte i of the source is seed[i + 1]
\* ------------------------------------------------------------------------
SeedByte(seed, i) == seed[i + 1]

\* 256^i mod 100 for i = 0..7
Pow256Mod100 == <<1, 56, 36, 16, 96, 76, 56, 36>>

RECURSIVE LeSumMod100(_, _)
LeSumMod100(seed, n) ==
    IF n = 0 THEN 0
    ELSE (LeSumMod100(seed, n - 1) + SeedByte(seed, n - 1) * Pow256Mod100[n]) % 100

\* u64::from_le_bytes(seed[0..8]) % 100, computed modulo 100 byte by byte
RollOf(seed) == LeSumMod100(seed, 8)

\* u32::from_le_bytes(seed[24..28]) as u64
JackpotRollOf(seed) ==
    SeedByte(seed, 24) + 256 * SeedByte(seed, 25)
        + 65536 * SeedByte(seed, 26) + 16777216 * SeedByte(seed, 27)

\* ------------------------------------------------------------------------
\* Risk limits
\* ------------------------------------------------------------------------
\* the bet limit with a survival mode of 2%
get_max_bet_survival_two(p, game) ==
    IF p < FIVE_SOL
    THEN IF game \in 0..3 THEN saturating_mul(p, 2) \div 100 ELSE 0
    ELSE CASE game = 0 -> saturating_mul(p, 3) \div 100
           [] game = 1 -> saturating_mul(p, 2) \div 100
           [] game = 2 -> saturating_mul(p, 3) \div 100
           [] game = 3 -> saturating_mul(p, 2) \div 100
           [] OTHER -> 0

\* get_max_bet without the survival tier
get_max_bet_no_survival(p, game) ==
    CASE game = 0 -> saturating_mul(p, 3) \div 100
      [] game = 1 -> saturating_mul(p, 2) \div 100
      [] game = 2 -> saturating_mul(p, 3) \div 100
      [] game = 3 -> saturating_mul(p, 2) \div 100
      [] OTHER -> 0

get_max_bet(p, game) ==
    IF p < FIVE_SOL
    THEN IF game \in 0..3 THEN saturating_mul(p, 1) \div 100 ELSE 0
    ELSE CASE game = 0 -> saturating_mul(p, 3) \div 100
           [] game = 1 -> saturating_mul(p, 2) \div 100
           [] game = 2 -> saturating_mul(p, 3) \div 100
           [] game = 3 -> saturating_mul(p, 2) \div 100
           [] OTHER -> 0

\* get_max_payout_cap without the clamp to the 25 SOL ceiling
get_max_payout_cap_unclamped(p) ==
    IF p < FIVE_SOL THEN saturating_mul(p, 3) \div 100
    ELSE IF p < TWENTY_SOL THEN saturating_mul(p, 5) \div 100
    ELSE IF p < FIFTY_SOL THEN saturating_mul(p, 8) \div 100
    ELSE saturating_mul(p, 10) \div 100

get_max_payout_cap(p) ==
    LET cap == IF p < FIVE_SOL THEN saturating_mul(p, 3) \div 100
               ELSE IF p < TWENTY_SOL THEN saturating_mul(p, 5) \div 100
               ELSE IF p < FIFTY_SOL THEN saturating_mul(p, 8) \div 100
               ELSE saturating_mul(p, 10) \div 100
    IN Min(cap, HARD_CAP)

\* get_resolve_slot with the scaled tier divided by the tier's upper limit
get_resolve_slot_coarse(slot, bet) ==
    LET base_delay == 5
    IN slot + base_delay
         + (IF bet <= MICRO_BET THEN 5
            ELSE IF bet <= SCALED_BET_MAX THEN 15 + (bet \div SCALED_BET_MAX)
            ELSE 50)

get_resolve_slot(slot, bet) ==
    LET base_delay == 5
    IN slot + base_delay
         + (IF bet <= MICRO_BET THEN 5
            ELSE IF bet <= SCALED_BET_MAX THEN 15 + (bet \div MICRO_BET)
            ELSE 50)

Pow2(n) == CASE n = 0 -> 1 [] n = 1 -> 2 [] n = 2 -> 4 [] n = 3 -> 8
             [] n = 4 -> 16 [] n = 5 -> 32 [] n = 6 -> 64 [] n = 7 -> 128
             [] OTHER -> 256

get_worst_payout(bet, game, config) ==
    CASE game = 0 -> saturating_mul(bet, 190) \div 100
      [] game = 1 ->
           LET radius == IF config[3] <= 3 THEN config[3] ELSE 0
               width == radius * 2 + 1
               area == width * width
               multiplier_bps == (((256 * 10000) \div area) * 95) \div 100
           IN MulDiv(bet, multiplier_bps, 10000)
      [] game = 2 ->
           LET target == IF config[1] >= 2 /\ config[1] <= 97 THEN config[1] ELSE 2
               is_over == config[2] = 1
               win_chance == IF is_over THEN saturating_sub(99, target) ELSE target
               chance == Max(win_chance, 1)
           IN MulDiv(bet, 9500, chance) \div 100
      [] game = 3 ->
           LET floors == IF config[1] >= 1 /\ config[1] <= 6 THEN config[1] ELSE 1
               power == Pow2(floors)
           IN MulDiv(bet, 95 * power, 100)
      [] OTHER -> 0

\* ------------------------------------------------------------------------
\* Game resolvers: session is a GameSession record
\* ------------------------------------------------------------------------
\* resolve_flip rolling with the seed's first byte alone
resolve_flip_low_byte(seed, session) ==
    LET roll == SeedByte(seed, 0) % 100
        won == roll < 50
        gross_payout == saturating_mul(session.bet_lamports, 190) \div 100
    IN [won |-> won, payout |-> IF won THEN gross_payout ELSE 0, roll |-> roll]

resolve_flip(seed, session) ==
    LET roll == RollOf(seed)
        won == roll < 50
        gross_payout == saturating_mul(session.bet_lamports, 190) \div 100
    IN [won |-> won, payout |-> IF won THEN gross_payout ELSE 0, roll |-> roll]

\* resolve_dice with the target itself a winning roll
resolve_dice_inclusive(seed, session) ==
    LET roll == RollOf(seed)
        target == session.target_x
        is_over == session.target_y = 1
        won == IF is_over THEN roll >= target ELSE roll <= target
        win_chance == IF is_over THEN saturating_sub(99, target) ELSE target
        gross_payout == MulDiv(session.bet_lamports, 9500, Max(win_chance, 1)) \div 100
    IN [won |-> won, payout |-> IF won THEN gross_payout ELSE 0, roll |-> roll]

resolve_dice(seed, session) ==
    LET roll == RollOf(seed)
        target == session.target_x
        is_over == session.target_y = 1
        won == IF is_over THEN roll > target ELSE roll < target
        win_chance == IF is_over THEN saturating_sub(99, target) ELSE target
        gross_payout == MulDiv(session.bet_lamports, 9500, Max(win_chance, 1)) \div 100
    IN [won |-> won, payout |-> IF won THEN gross_payout ELSE 0, roll |-> roll]

\* floor(a * b / 1000000) for a below 2^31 / 1000, computed without forming a * b
MulDivMillion(a, b) ==
    a * (b \div 1000000)
        + (a * ((b % 1000000) \div 1000) + (a * (b % 1000)) \div 1000) \div 1000

\* resolve_sector with the multiplier not truncated to whole basis points
resolve_sector_exact_multiplier(seed, session) ==
    LET strike_x == SeedByte(seed, 0) % 16
        strike_y == SeedByte(seed, 1) % 16
        dist_x == abs_diff(session.target_x, strike_x)
        dist_y == abs_diff(session.target_y, strike_y)
        max_dist == Max(dist_x, dist_y)
        won == max_dist <= session.target_radius
        width == session.target_radius * 2 + 1
        area == width * width
    IN [won |-> won,
        payout |-> IF won
                   THEN MulDivMillion(session.bet_lamports, ((256 * 10000) \div area) * 95)
                   ELSE 0,
        strike_x |-> strike_x, strike_y |-> strike_y]

resolve_sector(seed, session) ==
    LET strike_x == SeedByte(seed, 0) % 16
        strike_y == SeedByte(seed, 1) % 16
        dist_x == abs_diff(session.target_x, strike_x)
        dist_y == abs_diff(session.target_y, strike_y)
        max_dist == Max(dist_x, dist_y)
        won == max_dist <= session.target_radius
        width == session.target_radius * 2 + 1
        area == width * width
        multiplier_bps == (((256 * 10000) \div area) * 95) \div 100
    IN [won |-> won,
        payout |-> IF won THEN MulDiv(session.bet_lamports, multiplier_bps, 10000)
                   ELSE 0,
        strike_x |-> strike_x, strike_y |-> strike_y]

\* (path_bits >> i) & 1
PathBit(path_bits, i) == (path_bits \div Pow2(i)) % 2

RECURSIVE TowerDeath(_, _, _, _)
\* the loop of resolve_tower from floor i on, death_floor being the value so far
TowerDeath(seed, session, i, death_floor) ==
    IF i >= session.target_x THEN death_floor
    ELSE LET trap_lane == SeedByte(seed, i) % 2
             player_choice == PathBit(session.target_y, i)
         IN TowerDeath(seed, session, i + 1,
                IF death_floor = 0 /\ player_choice = trap_lane THEN i + 1
                ELSE death_floor)

RECURSIVE TowerLastDeath(_, _, _, _)
\* the loop of resolve_tower with every matching floor recorded over the last
TowerLastDeath(seed, session, i, death_floor) ==
    IF i >= session.target_x THEN death_floor
    ELSE LET trap_lane == SeedByte(seed, i) % 2
             player_choice == PathBit(session.target_y, i)
         IN TowerLastDeath(seed, session, i + 1,
                IF player_choice = trap_lane THEN i + 1 ELSE death_floor)

\* resolve_tower without the death_floor == 0 test of line 857
resolve_tower_overwrite(seed, session) ==
    LET floors == session.target_x
        death_floor == TowerLastDeath(seed, session, 0, 0)
        won == death_floor = 0
        power == Pow2(floors)
    IN [won |-> won,
        payout |-> IF won THEN MulDiv(session.bet_lamports, 95 * power, 100) ELSE 0,
        death_floor |-> death_floor]

resolve_tower(seed, session) ==
    LET floors == session.target_x
        death_floor == TowerDeath(seed, session, 0, 0)
        won == death_floor = 0
        power == Pow2(floors)
    IN [won |-> won,
        payout |-> IF won THEN MulDiv(session.bet_lamports, 95 * power, 100) ELSE 0,
        death_floor |-> death_floor]

\* the resolver each reveal endpoint calls
Resolve(game, seed, session) ==
    CASE game = 0 -> resolve_flip(seed, session)
      [] game = 1 -> resolve_sector(seed, session)
      [] game = 2 -> resolve_dice(seed, session)
      [] OTHER -> resolve_tower(seed, session)


\* ------------------------------------------------------------------------
\* Accounts and identities
\* ------------------------------------------------------------------------
POOL == "pool"
SYSTEM == "system_program"
Players == {"alice", "bob"}
Referrers == {"ref_rich", "ref_poor"}
Operators == {"op", "op2"}
Delegates == {"dkey"}
Wallets == Players \cup Referrers \cup Operators \cup Delegates

\* Rent::minimum_balance of a SessionToken account
TOKEN_RENT == 14

\* secret nonces ([u8; 32] in the source) and their commitments
Nonces == 1..9
\* solana_program::hash::hash, an injective map on these nonces: 1 -> 5, 2 -> 8,
\* 3 -> 0, 4 -> 3, 5 -> 6, 6 -> 9, 7 -> 1, 8 -> 4, 9 -> 7
Hash(nonce) == (3 * nonce + 2) % 11
Commitments == {Hash(n) : n \in Nonces}

\* a GameSession lives at the address derived from (player, commitment)
SessionIds == Players \X Commitments
NoSid == <<"none", 0>>

VARIABLES
    arg,        \* SpecPure: <<the input of a resolver>>, else <<>>
    res,        \* SpecPure: <<what the resolver returned>>, else <<>>
    clock,      \* Clock sysvar: [slot, unix_timestamp]
    pool,       \* the GlobalPool record
    lamports,   \* lamports of the pool account and of every wallet
    sessions,   \* GameSession accounts by address; open = the account exists
    tokens,     \* SessionToken accounts by player: <<>> or <<token>>
    last,       \* the last instruction and its result
    resolved,   \* per session address: how many times a bet left Pending
    placed,     \* per session address: how many bets were placed
    steps       \* Spec, SpecRisk: accepted instructions and clock moves so far

vars == <<arg, res, clock, pool, lamports, sessions, tokens, last, resolved, placed,
          steps>>

\* the accounts an instruction may write, as one value
State == [pool |-> pool, lamports |-> lamports, sessions |-> sessions]

Ok(st) == [err |-> "Ok", pool |-> st.pool, lamports |-> st.lamports,
           sessions |-> st.sessions]
\* an error return: st is what the handler had written when it returned
Fail(e, st) == [err |-> e, pool |-> st.pool, lamports |-> st.lamports,
                sessions |-> st.sessions]

\* a runtime that keeps the writes of a failed instruction
HostNoRevert(pre, r) == [pool |-> r.pool, lamports |-> r.lamports, sessions |-> r.sessions]

\* the runtime applies an instruction that returns Ok and reverts every
\* account write of one that returns an error
Host(pre, r) == IF r.err = "Ok" THEN [pool |-> r.pool, lamports |-> r.lamports,
                                      sessions |-> r.sessions]
                ELSE pre

EmptySession ==
    [open |-> FALSE, player |-> "none", referrer |-> "none", bet_lamports |-> 0,
     commitment |-> 0, commit_slot |-> 0, resolve_slot |-> 0, forfeit_slot |-> 0,
     game_type |-> 0, game_state |-> 0, target_x |-> 0, target_y |-> 0,
     target_radius |-> 0]

\* a transfer that credits the receiver and debits nobody
MoveWithoutDebit(lam, from, to, x) ==
    [lam EXCEPT ![to] = lam[to] + x]

\* lamports moved by `**from -= x; **to += x` or by a system transfer
Move(lam, from, to, x) ==
    [lam EXCEPT ![from] = lam[from] - x, ![to] = lam[to] + x]

Pending(session) == session.open /\ session.game_state = 0

\* a resolution that closes every open session account with the one it names
CloseEverySession(st, sid, dest) ==
    [st EXCEPT !.sessions = [s \in DOMAIN st.sessions |->
                   IF st.sessions[s].open
                   THEN [st.sessions[s] EXCEPT !.game_state = 2, !.open = FALSE]
                   ELSE st.sessions[s]],
               !.lamports[dest] = st.lamports[dest] + SESSION_RENT]

\* a resolution that returns the rent but leaves the session as it was
CloseKeepsSession(st, sid, dest) ==
    [st EXCEPT !.lamports[dest] = st.lamports[dest] + SESSION_RENT]

\* the end of every resolution path: `session.game_state = 2`, then (on exit)
\* `close = dest`: the account's rent goes to dest and the account is gone
CloseSessionAccount(st, sid, dest) ==
    [st EXCEPT !.sessions[sid].game_state = 2,
               !.sessions[sid].open = FALSE,
               !.lamports[dest] = st.lamports[dest] + SESSION_RENT]

\* ------------------------------------------------------------------------
\* Helpers of the program
\* ------------------------------------------------------------------------
is_valid_referrer(referrer, player) == referrer # SYSTEM /\ referrer # player

\* sync_pool_balance without its closing assertion
sync_unasserted(p, pool_lamports) ==
    LET physical == saturating_sub(pool_lamports, POOL_RENT)
        reserved == saturating_add(p.house_fees_earned, p.jackpot_balance)
    IN [pool |-> [p EXCEPT !.total_balance = saturating_sub(physical, reserved)],
        err |-> "Ok"]

\* returns the pool as written and the result of the closing assertion
sync_pool_balance(p, pool_lamports) ==
    LET rent == POOL_RENT
        physical == saturating_sub(pool_lamports, rent)
        reserved == saturating_add(p.house_fees_earned, p.jackpot_balance)
    IN [pool |-> [p EXCEPT !.total_balance = saturating_sub(physical, reserved)],
        err |-> IF physical >= reserved THEN "Ok" ELSE "AccountingBroken"]

\* sync_pool_balance applied to the pool of st
Sync(st) ==
    LET r == sync_pool_balance(st.pool, st.lamports[POOL])
    IN [err |-> r.err, st |-> [st EXCEPT !.pool = r.pool]]

\* a fee table with the same total: house 3%, referrer 1%, jackpot 1%
get_fee_bps_3_1_1(game_type) == [house |-> 300, ref |-> 100, jackpot |-> 100, treasury |-> 0]

get_fee_bps(game_type) == [house |-> 200, ref |-> 200, jackpot |-> 100, treasury |-> 0]

\* the fee split without the referrer's balance floor
FeeSplitAnyBalance(session, ref_balance) ==
    LET has_ref == is_valid_referrer(session.referrer, session.player)
        bps == get_fee_bps(session.game_type)
        bet == session.bet_lamports
        jackpot_cut == saturating_mul(bet, bps.jackpot) \div 10000
        house0 == saturating_mul(bet, bps.house + bps.treasury) \div 10000
        potential_ref == saturating_mul(bet, bps.ref) \div 10000
        paid == has_ref /\ potential_ref >= REF_MIN_COMMISSION
    IN [jackpot_cut |-> jackpot_cut,
        ref_cut |-> IF paid THEN potential_ref ELSE 0,
        house_cut |-> IF paid THEN house0 ELSE saturating_add(house0, potential_ref)]

\* STEP 1 of settle_outcome: the fee split of a bet
FeeSplit(session, ref_balance) ==
    LET has_ref == is_valid_referrer(session.referrer, session.player)
        bps == get_fee_bps(session.game_type)
        bet == session.bet_lamports
        jackpot_cut == saturating_mul(bet, bps.jackpot) \div 10000
        house0 == saturating_mul(bet, bps.house + bps.treasury) \div 10000
        potential_ref == saturating_mul(bet, bps.ref) \div 10000
        paid == has_ref /\ ref_balance >= REF_MIN_BALANCE
                    /\ potential_ref >= REF_MIN_COMMISSION
    IN [jackpot_cut |-> jackpot_cut,
        ref_cut |-> IF paid THEN potential_ref ELSE 0,
        house_cut |-> IF paid THEN house0 ELSE saturating_add(house0, potential_ref)]

\* the threshold without its cap
JackpotThresholdUncapped(bet) ==
    saturating_mul(bet, JACKPOT_RATE) * UNITS_TO_JACKPOT_BASE

\* the trigger threshold of a bet: bet * JACKPOT_RATE / JACKPOT_BASE in lamports,
\* capped at u32::MAX / 200
JackpotThreshold(bet) ==
    Min(saturating_mul(bet, JACKPOT_RATE) * UNITS_TO_JACKPOT_BASE, JACKPOT_ROLL_CAP)

\* the jackpot prize without the floors on the bet and on the reserve
JackpotPrizeNoFloor(bet, jackpot_balance, seed) ==
    IF JackpotRollOf(seed) < JackpotThreshold(bet)
    THEN saturating_mul(jackpot_balance, 90) \div 100
    ELSE 0

\* a jackpot that pays out the whole reserve
JackpotPrizeWholeReserve(bet, jackpot_balance, seed) ==
    IF bet >= JACKPOT_MIN_BET /\ jackpot_balance >= JACKPOT_MIN_POOL
    THEN IF JackpotRollOf(seed) < JackpotThreshold(bet) THEN jackpot_balance ELSE 0
    ELSE 0

\* STEP 1.5 of settle_outcome: the jackpot prize (0 when it does not trigger)
JackpotPrize(bet, jackpot_balance, seed) ==
    IF bet >= JACKPOT_MIN_BET /\ jackpot_balance >= JACKPOT_MIN_POOL
    THEN LET jackpot_roll == JackpotRollOf(seed)
             threshold == JackpotThreshold(bet)
         IN IF jackpot_roll < threshold
            THEN saturating_mul(jackpot_balance, 90) \div 100
            ELSE 0
    ELSE 0

settle_outcome(st, session, won, gross_payout, seed) ==
    LET p == st.pool
        player == session.player
        referrer == session.referrer
        ref_balance == IF referrer \in DOMAIN st.lamports THEN st.lamports[referrer] ELSE 1
        fees == FeeSplit(session, ref_balance)
        jackpot_prize == JackpotPrize(session.bet_lamports, p.jackpot_balance, seed)
        game_out == IF won THEN gross_payout + fees.ref_cut ELSE fees.ref_cut
        total_physical_out == game_out + jackpot_prize
        available == saturating_sub(saturating_sub(saturating_sub(
                         st.lamports[POOL], POOL_RENT), p.house_fees_earned),
                         p.jackpot_balance)
        player_receives == (IF won THEN gross_payout ELSE 0) + jackpot_prize
        lam1 == Move(Move(st.lamports, POOL, player, player_receives),
                     POOL, IF fees.ref_cut > 0 THEN referrer ELSE player, fees.ref_cut)
        p1 == [p EXCEPT
                 !.jackpot_balance = saturating_add(
                     saturating_sub(p.jackpot_balance, jackpot_prize), fees.jackpot_cut),
                 !.house_fees_earned = saturating_add(p.house_fees_earned, fees.house_cut),
                 !.total_wins = IF won THEN p.total_wins + 1 ELSE p.total_wins,
                 !.biggest_win = IF won /\ gross_payout > p.biggest_win
                                 THEN gross_payout ELSE p.biggest_win,
                 !.total_jackpot_won = p.total_jackpot_won + jackpot_prize]
        st1 == [st EXCEPT !.lamports = lam1, !.pool = p1]
        synced == Sync(st1)
    IN IF ~(available >= game_out + fees.jackpot_cut + fees.house_cut)
       THEN Fail("InsufficientLiquidity", st)
       ELSE IF total_physical_out > st.lamports[POOL]
       THEN Fail("LamportUnderflow", st)
       ELSE IF synced.err # "Ok" THEN Fail(synced.err, synced.st)
       ELSE Ok(synced.st)

\* validate_and_extract_seed without the game-type check
validate_any_game_type(session, clk, nonce, expected_game_type, found) ==
    IF ~(session.game_state = 0) THEN "SessionNotPending"
    ELSE IF ~(clk.slot >= session.resolve_slot) THEN "TooEarlyToReveal"
    ELSE IF ~(clk.slot <= session.forfeit_slot) THEN "RevealWindowExpired"
    ELSE IF ~(saturating_sub(clk.slot, session.resolve_slot) < SLOT_HASH_WINDOW)
    THEN "SlotTooOld"
    ELSE IF ~(Hash(nonce) = session.commitment) THEN "InvalidNonce"
    ELSE IF ~found THEN "SlotHashNotFound"
    ELSE "Ok"

\* validate_and_extract_seed without the two deadlines of a reveal
validate_no_deadline(session, clk, nonce, expected_game_type, found) ==
    IF ~(session.game_state = 0) THEN "SessionNotPending"
    ELSE IF ~(session.game_type = expected_game_type) THEN "WrongGameType"
    ELSE IF ~(clk.slot >= session.resolve_slot) THEN "TooEarlyToReveal"
    ELSE IF ~(Hash(nonce) = session.commitment) THEN "InvalidNonce"
    ELSE IF ~found THEN "SlotHashNotFound"
    ELSE "Ok"

\* found = the three slot hashes from resolve_slot on are in SlotHashes; the
\* seed is Blake3 of them and the nonce, an input of the model
validate_and_extract_seed(session, clk, nonce, expected_game_type, found) ==
    IF ~(session.game_state = 0) THEN "SessionNotPending"
    ELSE IF ~(session.game_type = expected_game_type) THEN "WrongGameType"
    ELSE IF ~(clk.slot >= session.resolve_slot) THEN "TooEarlyToReveal"
    ELSE IF ~(clk.slot <= session.forfeit_slot) THEN "RevealWindowExpired"
    ELSE IF ~(saturating_sub(clk.slot, session.resolve_slot) < SLOT_HASH_WINDOW)
    THEN "SlotTooOld"
    ELSE IF ~(Hash(nonce) = session.commitment) THEN "InvalidNonce"
    ELSE IF ~found THEN "SlotHashNotFound"
    ELSE "Ok"

\* ------------------------------------------------------------------------
\* Instructions.  Each returns Ok(state) or Fail(error, state as written so far)
\* ------------------------------------------------------------------------
fund_pool(st, funder, amount) ==
    IF ~(amount > 0) THEN Fail("BetTooSmall", st)
    ELSE IF st.lamports[funder] < amount THEN Fail("TransferFailed", st)
    ELSE LET synced == Sync([st EXCEPT !.lamports = Move(st.lamports, funder, POOL, amount)])
         IN IF synced.err # "Ok" THEN Fail(synced.err, synced.st) ELSE Ok(synced.st)

\* the game_config checks with the Grid radius allowed up to 4
ConfigErrorRadius4(game_type, cfg) ==
    IF game_type = 0 /\ cfg # <<0, 0, 0>> THEN "InvalidGameConfig"
    ELSE IF game_type = 1 /\ ~(cfg[1] < 16) THEN "InvalidCoordinate"
    ELSE IF game_type = 1 /\ ~(cfg[2] < 16) THEN "InvalidCoordinate"
    ELSE IF game_type = 1 /\ ~(cfg[3] <= 4) THEN "InvalidRadius"
    ELSE IF game_type = 2 /\ ~(cfg[2] <= 1) THEN "InvalidGameConfig"
    ELSE IF game_type = 2 /\ cfg[2] = 0 /\ ~(cfg[1] >= 2 /\ cfg[1] <= 95)
    THEN "InvalidDiceTarget"
    ELSE IF game_type = 2 /\ cfg[2] # 0 /\ ~(cfg[1] >= 4 /\ cfg[1] <= 97)
    THEN "InvalidDiceTarget"
    ELSE IF game_type = 3 /\ ~(cfg[1] >= 1 /\ cfg[1] <= 6) THEN "InvalidTowerFloors"
    ELSE IF game_type = 3 /\ ~(cfg[2] < Pow2(cfg[1])) THEN "InvalidGameConfig"
    ELSE "Ok"

\* the game_config checks of place_bet; cfg = <<config[0], config[1], config[2]>>
ConfigError(game_type, cfg) ==
    IF game_type = 0 /\ cfg # <<0, 0, 0>> THEN "InvalidGameConfig"
    ELSE IF game_type = 1 /\ ~(cfg[1] < 16) THEN "InvalidCoordinate"
    ELSE IF game_type = 1 /\ ~(cfg[2] < 16) THEN "InvalidCoordinate"
    ELSE IF game_type = 1 /\ ~(cfg[3] <= 3) THEN "InvalidRadius"
    ELSE IF game_type = 2 /\ ~(cfg[2] <= 1) THEN "InvalidGameConfig"
    ELSE IF game_type = 2 /\ cfg[2] = 0 /\ ~(cfg[1] >= 2 /\ cfg[1] <= 95)
    THEN "InvalidDiceTarget"
    ELSE IF game_type = 2 /\ cfg[2] # 0 /\ ~(cfg[1] >= 4 /\ cfg[1] <= 97)
    THEN "InvalidDiceTarget"
    ELSE IF game_type = 3 /\ ~(cfg[1] >= 1 /\ cfg[1] <= 6) THEN "InvalidTowerFloors"
    \* game_config[1] & !mask == 0 with mask = 2^floors - 1
    ELSE IF game_type = 3 /\ ~(cfg[2] < Pow2(cfg[1])) THEN "InvalidGameConfig"
    ELSE "Ok"

\* the checks of place_bet before the session is written
\* place_bet's checks without the two that compare the worst-case payout with
\* the pool
PlaceBetErrorAnyPayout(p, player, referrer, game_type, bet, cfg) ==
    IF p.paused THEN "ContractPaused"
    ELSE IF ~(p.total_balance >= MIN_POOL) THEN "PoolTooLow"
    ELSE IF ~(bet >= MIN_BET) THEN "BetTooSmall"
    ELSE IF ~(game_type <= 3) THEN "InvalidGameType"
    ELSE IF ConfigError(game_type, cfg) # "Ok" THEN ConfigError(game_type, cfg)
    ELSE IF ~(bet <= get_max_bet(p.total_balance, game_type)) THEN "BetExceedsLimit"
    ELSE IF referrer # SYSTEM /\ referrer # player /\ referrer \notin Wallets
    THEN "InvalidReferrer"
    ELSE "Ok"

PlaceBetError(p, player, referrer, game_type, bet, cfg) ==
    IF p.paused THEN "ContractPaused"
    ELSE IF ~(p.total_balance >= MIN_POOL) THEN "PoolTooLow"
    ELSE IF ~(bet >= MIN_BET) THEN "BetTooSmall"
    ELSE IF ~(game_type <= 3) THEN "InvalidGameType"
    ELSE IF ConfigError(game_type, cfg) # "Ok" THEN ConfigError(game_type, cfg)
    ELSE IF ~(bet <= get_max_bet(p.total_balance, game_type)) THEN "BetExceedsLimit"
    \* a referrer other than the system program and the player must be a wallet
    ELSE IF referrer # SYSTEM /\ referrer # player /\ referrer \notin Wallets
    THEN "InvalidReferrer"
    ELSE IF ~(saturating_add(p.total_balance, bet) >= get_worst_payout(bet, game_type, cfg))
    THEN "InsufficientLiquidity"
    ELSE IF ~(get_worst_payout(bet, game_type, cfg) <= get_max_payout_cap(p.total_balance))
    THEN "PayoutExceedsPoolCap"
    ELSE "Ok"

NewSession(clk, player, referrer, game_type, commitment, bet, cfg) ==
    [open |-> TRUE, player |-> player, referrer |-> referrer, bet_lamports |-> bet,
     commitment |-> commitment, commit_slot |-> clk.slot,
     resolve_slot |-> get_resolve_slot(clk.slot, bet),
     forfeit_slot |-> clk.slot + REVEAL_WINDOW,
     game_type |-> game_type, game_state |-> 0,
     target_x |-> cfg[1], target_y |-> cfg[2], target_radius |-> cfg[3]]

place_bet(st, clk, player, referrer, game_type, commitment, bet, cfg) ==
    LET sid == <<player, commitment>>
        e == PlaceBetError(st.pool, player, referrer, game_type, bet, cfg)
        \* `init, payer = player`: the player funds the new account's rent
        st0 == [st EXCEPT !.lamports[player] = st.lamports[player] - SESSION_RENT,
                          !.sessions[sid] = [EmptySession EXCEPT !.open = TRUE]]
        st1 == [st0 EXCEPT !.sessions[sid] =
                    NewSession(clk, player, referrer, game_type, commitment, bet, cfg)]
        st2 == [st1 EXCEPT !.lamports = Move(st1.lamports, player, POOL, bet)]
        synced == Sync(st2)
        p3 == [synced.st.pool EXCEPT !.total_wagered = @ + bet, !.total_bets = @ + 1]
    IN IF st.sessions[sid].open THEN Fail("AccountAlreadyInUse", st)
       ELSE IF st.lamports[player] < SESSION_RENT THEN Fail("TransferFailed", st)
       ELSE IF e # "Ok" THEN Fail(e, st0)
       ELSE IF st1.lamports[player] < bet THEN Fail("TransferFailed", st1)
       ELSE IF synced.err # "Ok" THEN Fail(synced.err, synced.st)
       ELSE Ok([synced.st EXCEPT !.pool = p3])

\* the body shared by the four reveal endpoints and their delegated forms;
\* the accounts were validated (session exists, has_one = player)
RevealBody(st, clk, sid, nonce, game_type, found, seed) ==
    LET session == st.sessions[sid]
        e == validate_and_extract_seed(session, clk, nonce, game_type, found)
        out == Resolve(game_type, seed, session)
        settled == settle_outcome(st, session, out.won, out.payout, seed)
        st1 == [pool |-> settled.pool, lamports |-> settled.lamports,
                sessions |-> settled.sessions]
    IN IF e # "Ok" THEN Fail(e, st)
       ELSE IF settled.err # "Ok" THEN settled
       ELSE Ok(CloseSessionAccount(st1, sid, session.player))

\* a reveal refused while the pool is paused
reveal_unpaused(st, clk, signer, sid, nonce, game_type, found, seed) ==
    IF ~st.sessions[sid].open THEN Fail("AccountNotInitialized", st)
    ELSE IF st.sessions[sid].player # signer THEN Fail("ConstraintHasOne", st)
    ELSE IF st.pool.paused THEN Fail("ContractPaused", st)
    ELSE RevealBody(st, clk, sid, nonce, game_type, found, seed)

reveal(st, clk, signer, sid, nonce, game_type, found, seed) ==
    IF ~st.sessions[sid].open THEN Fail("AccountNotInitialized", st)
    ELSE IF st.sessions[sid].player # signer THEN Fail("ConstraintHasOne", st)
    ELSE RevealBody(st, clk, sid, nonce, game_type, found, seed)

\* reveal_delegated accepting the delegate in the second the token expires at
reveal_delegated_at_expiry(st, toks, clk, signer, sid, nonce, game_type, found, seed) ==
    IF ~st.sessions[sid].open THEN Fail("AccountNotInitialized", st)
    ELSE IF toks[st.sessions[sid].player] = <<>> THEN Fail("AccountNotInitialized", st)
    ELSE LET token == toks[st.sessions[sid].player][1]
         IN IF token.delegate # signer \/ token.player # st.sessions[sid].player
            THEN Fail("ConstraintHasOne", st)
            ELSE IF ~(clk.unix_timestamp <= token.expires_at)
            THEN Fail("SessionExpired", st)
            ELSE RevealBody(st, clk, sid, nonce, game_type, found, seed)

\* toks = the SessionToken accounts; the player account passed is the session's
reveal_delegated(st, toks, clk, signer, sid, nonce, game_type, found, seed) ==
    IF ~st.sessions[sid].open THEN Fail("AccountNotInitialized", st)
    ELSE IF toks[st.sessions[sid].player] = <<>> THEN Fail("AccountNotInitialized", st)
    ELSE LET token == toks[st.sessions[sid].player][1]
         IN IF token.delegate # signer \/ token.player # st.sessions[sid].player
            THEN Fail("ConstraintHasOne", st)
            ELSE IF ~(clk.unix_timestamp < token.expires_at)
            THEN Fail("SessionExpired", st)
            ELSE RevealBody(st, clk, sid, nonce, game_type, found, seed)

\* claim_forfeit refused while the pool is paused
claim_forfeit_unpaused(st, clk, sid) ==
    LET session == st.sessions[sid]
        synced == Sync(st)
    IN IF ~session.open THEN Fail("AccountNotInitialized", st)
       ELSE IF st.pool.paused THEN Fail("ContractPaused", st)
       ELSE IF ~(session.game_state < 2
                   /\ clk.slot > saturating_add(session.forfeit_slot, GRACE_SLOTS))
       THEN Fail("ForfeitNotAvailable", st)
       ELSE IF synced.err # "Ok" THEN Fail(synced.err, synced.st)
       ELSE Ok(CloseSessionAccount(synced.st, sid, POOL))

\* claim_forfeit without the grace period after forfeit_slot
claim_forfeit_no_grace(st, clk, sid) ==
    LET session == st.sessions[sid]
        synced == Sync(st)
    IN IF ~session.open THEN Fail("AccountNotInitialized", st)
       ELSE IF ~(session.game_state < 2 /\ clk.slot > session.forfeit_slot)
       THEN Fail("ForfeitNotAvailable", st)
       ELSE IF synced.err # "Ok" THEN Fail(synced.err, synced.st)
       ELSE Ok(CloseSessionAccount(synced.st, sid, POOL))

\* the caller is a signer the instruction puts no condition on
claim_forfeit(st, clk, sid) ==
    LET session == st.sessions[sid]
        synced == Sync(st)
    IN IF ~session.open THEN Fail("AccountNotInitialized", st)
       ELSE IF ~(session.game_state < 2
                   /\ clk.slot > saturating_add(session.forfeit_slot, GRACE_SLOTS))
       THEN Fail("ForfeitNotAvailable", st)
       ELSE IF synced.err # "Ok" THEN Fail(synced.err, synced.st)
       \* `close = pool` runs after the handler returned, so after the sync
       ELSE Ok(CloseSessionAccount(synced.st, sid, POOL))

\* the two refund paths: pay `refund` to the player, book the rest of the bet
\* as house fees, sync, mark the session terminal, close it to the player
RefundBody(st, sid, refund) ==
    LET session == st.sessions[sid]
        penalty == saturating_sub(session.bet_lamports, refund)
        st1 == [st EXCEPT
                  !.lamports = Move(st.lamports, POOL, session.player, refund),
                  !.pool.house_fees_earned =
                      saturating_add(st.pool.house_fees_earned, penalty)]
        synced == Sync(st1)
    IN IF st.lamports[POOL] < refund THEN Fail("LamportUnderflow", st)
       ELSE IF synced.err # "Ok" THEN Fail(synced.err, synced.st)
       ELSE Ok(CloseSessionAccount(synced.st, sid, session.player))

\* emergency_refund open to any signer
emergency_refund_any_signer(st, clk, signer, sid) ==
    LET session == st.sessions[sid]
        refund == saturating_mul(session.bet_lamports, 90) \div 100
    IN IF ~session.open THEN Fail("AccountNotInitialized", st)
       ELSE IF ~(session.game_state = 0) THEN Fail("SessionNotPending", st)
       ELSE IF ~(clk.slot > session.forfeit_slot) THEN Fail("ForfeitNotAvailable", st)
       ELSE IF ~(st.pool.total_balance >= refund) THEN Fail("InsufficientLiquidity", st)
       ELSE RefundBody(st, sid, refund)

\* emergency_refund closed until the grace period is over
emergency_refund_after_grace(st, clk, signer, sid) ==
    LET session == st.sessions[sid]
        refund == saturating_mul(session.bet_lamports, 90) \div 100
    IN IF ~session.open THEN Fail("AccountNotInitialized", st)
       ELSE IF session.player # signer THEN Fail("ConstraintHasOne", st)
       ELSE IF ~(session.game_state = 0) THEN Fail("SessionNotPending", st)
       ELSE IF ~(clk.slot > saturating_add(session.forfeit_slot, GRACE_SLOTS))
       THEN Fail("ForfeitNotAvailable", st)
       ELSE IF ~(st.pool.total_balance >= refund) THEN Fail("InsufficientLiquidity", st)
       ELSE RefundBody(st, sid, refund)

emergency_refund(st, clk, signer, sid) ==
    LET session == st.sessions[sid]
        refund == saturating_mul(session.bet_lamports, 90) \div 100
    IN IF ~session.open THEN Fail("AccountNotInitialized", st)
       ELSE IF session.player # signer THEN Fail("ConstraintHasOne", st)
       ELSE IF ~(session.game_state = 0) THEN Fail("SessionNotPending", st)
       ELSE IF ~(clk.slot > session.forfeit_slot) THEN Fail("ForfeitNotAvailable", st)
       ELSE IF ~(st.pool.total_balance >= refund) THEN Fail("InsufficientLiquidity", st)
       ELSE RefundBody(st, sid, refund)

\* emergency_player_refund open as soon as the pool equals the worst case
emergency_player_refund_at_worst(st, sid) ==
    LET session == st.sessions[sid]
        config == <<session.target_x, session.target_y, session.target_radius>>
        worst == get_worst_payout(session.bet_lamports, session.game_type, config)
        refund == saturating_mul(session.bet_lamports, 96) \div 100
    IN IF ~session.open THEN Fail("AccountNotInitialized", st)
       ELSE IF ~(session.game_state = 0) THEN Fail("SessionNotPending", st)
       ELSE IF ~(st.pool.total_balance <= worst) THEN Fail("InsufficientLiquidity", st)
       ELSE RefundBody(st, sid, refund)

\* emergency_player_refund open whenever the pool is below twice the worst case
emergency_player_refund_early(st, sid) ==
    LET session == st.sessions[sid]
        config == <<session.target_x, session.target_y, session.target_radius>>
        worst == get_worst_payout(session.bet_lamports, session.game_type, config)
        refund == saturating_mul(session.bet_lamports, 96) \div 100
    IN IF ~session.open THEN Fail("AccountNotInitialized", st)
       ELSE IF ~(session.game_state = 0) THEN Fail("SessionNotPending", st)
       ELSE IF ~(st.pool.total_balance < 2 * worst) THEN Fail("InsufficientLiquidity", st)
       ELSE RefundBody(st, sid, refund)

\* the caller is a signer the instruction puts no condition on; the player
\* account is the session's (address = session.player)
emergency_player_refund(st, sid) ==
    LET session == st.sessions[sid]
        config == <<session.target_x, session.target_y, session.target_radius>>
        worst == get_worst_payout(session.bet_lamports, session.game_type, config)
        refund == saturating_mul(session.bet_lamports, 96) \div 100
    IN IF ~session.open THEN Fail("AccountNotInitialized", st)
       ELSE IF ~(session.game_state = 0) THEN Fail("SessionNotPending", st)
       ELSE IF ~(st.pool.total_balance < worst) THEN Fail("InsufficientLiquidity", st)
       ELSE RefundBody(st, sid, refund)

\* AdminOnly: the signer is the pool's authority (has_one = authority)
AdminError(p, signer) == IF signer # p.authority THEN "ConstraintHasOne" ELSE "Ok"

set_paused(st, signer, paused) ==
    IF AdminError(st.pool, signer) # "Ok" THEN Fail(AdminError(st.pool, signer), st)
    ELSE Ok([st EXCEPT !.pool.paused = paused])

\* request_withdrawal without its pending-request check of line 489
request_withdrawal_overwrite(st, clk, signer, amount) ==
    LET max == st.pool.total_balance \div 5
    IN IF AdminError(st.pool, signer) # "Ok" THEN Fail(AdminError(st.pool, signer), st)
       ELSE IF ~(amount <= max) THEN Fail("WithdrawalTooLarge", st)
       ELSE Ok([st EXCEPT !.pool.withdrawal_request =
                   <<[amount |-> amount, requested_at |-> clk.unix_timestamp,
                      unlocks_at |-> clk.unix_timestamp + TIMELOCK_SECS]>>])

request_withdrawal(st, clk, signer, amount) ==
    LET max == st.pool.total_balance \div 5
    IN IF AdminError(st.pool, signer) # "Ok" THEN Fail(AdminError(st.pool, signer), st)
       ELSE IF ~(st.pool.withdrawal_request = <<>>) THEN Fail("PendingWithdrawal", st)
       ELSE IF ~(amount <= max) THEN Fail("WithdrawalTooLarge", st)
       ELSE Ok([st EXCEPT !.pool.withdrawal_request =
                   <<[amount |-> amount, requested_at |-> clk.unix_timestamp,
                      unlocks_at |-> clk.unix_timestamp + TIMELOCK_SECS]>>])

\* execute_withdrawal without its timelock check of line 507
execute_withdrawal_no_timelock(st, clk, signer) ==
    IF AdminError(st.pool, signer) # "Ok" THEN Fail(AdminError(st.pool, signer), st)
    ELSE IF st.pool.withdrawal_request = <<>> THEN Fail("NoWithdrawalRequest", st)
    ELSE LET req == st.pool.withdrawal_request[1]
             st1 == [st EXCEPT
                       !.lamports = Move(st.lamports, POOL, signer, req.amount),
                       !.pool.withdrawal_request = <<>>]
             synced == Sync(st1)
         IN IF ~(st.pool.total_balance >= req.amount)
            THEN Fail("InsufficientLiquidity", st)
            ELSE IF st.lamports[POOL] < req.amount THEN Fail("LamportUnderflow", st)
            ELSE IF synced.err # "Ok" THEN Fail(synced.err, synced.st)
            ELSE Ok(synced.st)

execute_withdrawal(st, clk, signer) ==
    IF AdminError(st.pool, signer) # "Ok" THEN Fail(AdminError(st.pool, signer), st)
    ELSE IF st.pool.withdrawal_request = <<>> THEN Fail("NoWithdrawalRequest", st)
    ELSE LET req == st.pool.withdrawal_request[1]
             st1 == [st EXCEPT
                       !.lamports = Move(st.lamports, POOL, signer, req.amount),
                       !.pool.withdrawal_request = <<>>]
             synced == Sync(st1)
         IN IF ~(clk.unix_timestamp >= req.unlocks_at) THEN Fail("TimelockActive", st)
            ELSE IF ~(st.pool.total_balance >= req.amount)
            THEN Fail("InsufficientLiquidity", st)
            ELSE IF st.lamports[POOL] < req.amount THEN Fail("LamportUnderflow", st)
            ELSE IF synced.err # "Ok" THEN Fail(synced.err, synced.st)
            ELSE Ok(synced.st)

cancel_withdrawal(st, signer) ==
    IF AdminError(st.pool, signer) # "Ok" THEN Fail(AdminError(st.pool, signer), st)
    ELSE Ok([st EXCEPT !.pool.withdrawal_request = <<>>])

claim_house_fees(st, signer, amount) ==
    LET st1 == [st EXCEPT
                  !.lamports = Move(st.lamports, POOL, signer, amount),
                  !.pool.house_fees_earned =
                      saturating_sub(st.pool.house_fees_earned, amount)]
        synced == Sync(st1)
    IN IF AdminError(st.pool, signer) # "Ok" THEN Fail(AdminError(st.pool, signer), st)
       ELSE IF ~(amount > 0) THEN Fail("BetTooSmall", st)
       ELSE IF ~(amount <= st.pool.house_fees_earned) THEN Fail("InsufficientLiquidity", st)
       ELSE IF ~(saturating_sub(st.lamports[POOL], POOL_RENT) >= amount)
       THEN Fail("InsufficientLiquidity", st)
       ELSE IF synced.err # "Ok" THEN Fail(synced.err, synced.st)
       ELSE Ok(synced.st)

reinvest_house_fees(st, signer, amount) ==
    LET st1 == [st EXCEPT !.pool.house_fees_earned =
                    saturating_sub(st.pool.house_fees_earned, amount)]
        synced == Sync(st1)
    IN IF AdminError(st.pool, signer) # "Ok" THEN Fail(AdminError(st.pool, signer), st)
       ELSE IF ~(amount > 0) THEN Fail("BetTooSmall", st)
       ELSE IF ~(amount <= st.pool.house_fees_earned) THEN Fail("InsufficientLiquidity", st)
       ELSE IF synced.err # "Ok" THEN Fail(synced.err, synced.st)
       ELSE Ok(synced.st)

propose_authority_transfer(st, clk, signer, new_authority) ==
    IF AdminError(st.pool, signer) # "Ok" THEN Fail(AdminError(st.pool, signer), st)
    ELSE IF ~(new_authority # st.pool.authority) THEN Fail("InvalidReferrer", st)
    \* Pubkey::default() is the system program's address
    ELSE IF ~(new_authority # SYSTEM) THEN Fail("InvalidReferrer", st)
    ELSE Ok([st EXCEPT !.pool.pending_authority = <<new_authority>>,
                       !.pool.authority_transfer_at = clk.unix_timestamp + AUTH_TIMELOCK])

cancel_authority_transfer(st, signer) ==
    IF AdminError(st.pool, signer) # "Ok" THEN Fail(AdminError(st.pool, signer), st)
    ELSE IF ~(st.pool.pending_authority # <<>>) THEN Fail("NoWithdrawalRequest", st)
    ELSE Ok([st EXCEPT !.pool.pending_authority = <<>>,
                       !.pool.authority_transfer_at = 0])

\* execute_authority_transfer without its signer check of line 598
execute_authority_transfer_unsigned(st, clk, signer) ==
    IF st.pool.pending_authority = <<>> THEN Fail("NoWithdrawalRequest", st)
    ELSE IF ~(clk.unix_timestamp >= st.pool.authority_transfer_at)
    THEN Fail("TimelockActive", st)
    ELSE Ok([st EXCEPT !.pool.authority = st.pool.pending_authority[1],
                       !.pool.pending_authority = <<>>,
                       !.pool.authority_transfer_at = 0])

execute_authority_transfer(st, clk, signer) ==
    IF st.pool.pending_authority = <<>> THEN Fail("NoWithdrawalRequest", st)
    ELSE IF ~(signer = st.pool.pending_authority[1]) THEN Fail("InvalidReferrer", st)
    ELSE IF ~(clk.unix_timestamp >= st.pool.authority_transfer_at)
    THEN Fail("TimelockActive", st)
    ELSE Ok([st EXCEPT !.pool.authority = st.pool.pending_authority[1],
                       !.pool.pending_authority = <<>>,
                       !.pool.authority_transfer_at = 0])

\* create_session and close_session write the wallets and the SessionToken
\* accounts: they return [err, lamports, tokens]
create_session(lam, toks, clk, player, delegate, validity_secs, gas_lamports) ==
    LET lam0 == [lam EXCEPT ![player] = lam[player] - TOKEN_RENT]
        token == [player |-> player, delegate |-> delegate,
                  expires_at |-> clk.unix_timestamp + validity_secs]
        toks1 == [toks EXCEPT ![player] = <<token>>]
    IN IF toks[player] # <<>> THEN [err |-> "AccountAlreadyInUse", lamports |-> lam, tokens |-> toks]
       ELSE IF lam[player] < TOKEN_RENT
       THEN [err |-> "TransferFailed", lamports |-> lam, tokens |-> toks]
       ELSE IF ~(validity_secs > 0 /\ validity_secs <= MAX_SESSION_SECS)
       THEN [err |-> "InvalidSessionDuration", lamports |-> lam0, tokens |-> toks]
       ELSE IF ~(gas_lamports <= MAX_GAS)
       THEN [err |-> "GasTooHigh", lamports |-> lam0, tokens |-> toks]
       ELSE IF lam0[player] < gas_lamports
       THEN [err |-> "TransferFailed", lamports |-> lam0, tokens |-> toks1]
       ELSE [err |-> "Ok", lamports |-> Move(lam0, player, delegate, gas_lamports),
             tokens |-> toks1]

close_session(lam, toks, player) ==
    IF toks[player] = <<>> THEN [err |-> "AccountNotInitialized", lamports |-> lam, tokens |-> toks]
    ELSE [err |-> "Ok", lamports |-> [lam EXCEPT ![player] = lam[player] + TOKEN_RENT],
          tokens |-> [toks EXCEPT ![player] = <<>>]]

\* ------------------------------------------------------------------------
\* The state after `initialize`, and how a step is recorded
\* ------------------------------------------------------------------------
InitClock == [slot |-> 100, unix_timestamp |-> 1000]

\* the state `initialize` leaves, the authority having paid the pool's rent
InitPool ==
    [authority |-> "op", total_balance |-> 0, jackpot_balance |-> 0,
     total_wagered |-> 0, house_fees_earned |-> 0, paused |-> FALSE,
     withdrawal_request |-> <<>>, total_bets |-> 0, total_wins |-> 0,
     total_jackpot_won |-> 0, biggest_win |-> 0, pending_authority |-> <<>>,
     authority_transfer_at |-> 0]

InitLamports ==
    [a \in Wallets \cup {POOL} |->
        CASE a = POOL -> POOL_RENT
          [] a = "alice" -> 10000000
          [] a = "bob" -> 200
          [] a = "ref_rich" -> 10000
          [] a = "ref_poor" -> 400
          [] a = "op" -> 10000000
          [] OTHER -> 0]

\* the initial state with the wallets holding lam
InitWith(lam) ==
    /\ arg = <<>>
    /\ res = <<>>
    /\ clock = InitClock
    /\ pool = InitPool
    /\ lamports = lam
    /\ sessions = [s \in SessionIds |-> EmptySession]
    /\ tokens = [p \in Players |-> <<>>]
    /\ last = [op |-> "initialize", sid |-> NoSid, game |-> 0, nonce |-> 0, err |-> "Ok"]
    /\ resolved = [s \in SessionIds |-> 0]
    /\ placed = [s \in SessionIds |-> 0]
    /\ steps = 0

Init == InitWith(InitLamports)

RevealOps == {"reveal", "reveal_delegated"}
ResolutionOps == RevealOps \cup {"claim_forfeit", "emergency_refund", "emergency_player_refund"}

\* one instruction on the pool, the wallets and the sessions: the runtime
\* applies or reverts it, `last` records it
Record(op, sid, game, nonce, r) ==
    LET post == Host(State, r)
        ok == r.err = "Ok"
    IN /\ pool' = post.pool
       /\ lamports' = post.lamports
       /\ sessions' = post.sessions
       /\ last' = [op |-> op, sid |-> sid, game |-> IF ok THEN game ELSE 0,
                   nonce |-> IF ok THEN nonce ELSE 0, err |-> r.err]
       /\ resolved' = IF ok /\ op \in ResolutionOps
                      THEN [resolved EXCEPT ![sid] = @ + 1] ELSE resolved
       /\ placed' = IF ok /\ op = "place_bet"
                    THEN [placed EXCEPT ![sid] = @ + 1] ELSE placed
       /\ UNCHANGED <<arg, res, clock, tokens>>

\* one of the two SessionToken instructions
TokenRecord(op, r) ==
    LET ok == r.err = "Ok"
    IN /\ lamports' = IF ok THEN r.lamports ELSE lamports
       /\ tokens' = IF ok THEN r.tokens ELSE tokens
       /\ last' = [op |-> op, sid |-> NoSid, game |-> 0, nonce |-> 0, err |-> r.err]
       /\ UNCHANGED <<arg, res, clock, pool, sessions, resolved, placed>>

\* the cluster's clock moves on by j = <<slots, seconds>>
Tick(j) ==
    /\ clock' = [slot |-> clock.slot + j[1], unix_timestamp |-> clock.unix_timestamp + j[2]]
    /\ last' = [op |-> "clock", sid |-> NoSid, game |-> 0, nonce |-> 0, err |-> "Ok"]
    /\ UNCHANGED <<arg, res, pool, lamports, sessions, tokens, resolved, placed>>

\* a seed with bytes 0 and 1 (the outcome bytes used here) and byte 27 (the top
\* byte of the jackpot draw) given, every other byte 0
MkSeed(b0, b1, b27) ==
    [i \in 1..32 |-> IF i = 1 THEN b0 ELSE IF i = 2 THEN b1 ELSE IF i = 28 THEN b27 ELSE 0]

\* ------------------------------------------------------------------------
\* Spec: every instruction
\* ------------------------------------------------------------------------
MaxSteps == 5

\* roll 0 / roll 99, each with the jackpot draw 0 and a draw above the cap
SpecSeeds == {MkSeed(b0, 0, j) : b0 \in {0, 99}, j \in {0, 100}}

\* 2 SOL (survival tier) and 300 SOL (strong tier, above the 25 SOL cap's range)
FundAmounts == {20000, 3000000}
\* <<game_type, game_config, referrer>>: a coin flip without referrer, a
\* two-floor tower with one
BetTemplates == {<<0, <<0, 0, 0>>, SYSTEM>>, <<3, <<2, 3, 0>>, "ref_rich">>}
\* who bets under which nonce
Bettors == {<<"alice", 1>>, <<"bob", 2>>}
\* <<slots, seconds>> at 0.4 s per slot: into the reveal window, past the
\* SlotHashes window, past forfeit_slot, past the grace period and both timelocks
ClockJumps == {<<60, 24>>, <<600, 240>>, <<1100, 440>>, <<648000, 259200>>}

\* a rejected instruction is explored no further
Live == last.err = "Ok" /\ steps < MaxSteps

Commit(op, sid, game, nonce, r) ==
    /\ Record(op, sid, game, nonce, r)
    /\ steps' = IF r.err = "Ok" THEN steps + 1 ELSE steps

TokenCommit(op, r) ==
    /\ TokenRecord(op, r)
    /\ steps' = IF r.err = "Ok" THEN steps + 1 ELSE steps

\* the bets tried against a pool: one below the minimum, one that 1% and 2% do
\* not divide, and the game's limit
BetChoices(game) == {MIN_BET - 1, MIN_BET + 49, get_max_bet(pool.total_balance, game)}

\* the session addresses that have held a bet
UsedSids == {sid \in SessionIds : placed[sid] > 0}

OtherGame(g) == (g + 1) % 4
OtherPlayer(pl) == IF pl = "alice" THEN "bob" ELSE "alice"

\* what a reveal of sid is called with, <<endpoint's game type, nonce, right
\* signer?>>: the right call, and the calls with one argument wrong
RevealArgs(sid) ==
    LET g == sessions[sid].game_type
        n == CHOOSE x \in Nonces : Hash(x) = sid[2]
        m == CHOOSE x \in Nonces : x # n
    IN {<<g, n, TRUE>>, <<OtherGame(g), n, TRUE>>, <<g, m, TRUE>>, <<g, n, FALSE>>}

\* the entropy a reveal finds: no slot hash, or a seed
NoSeed == MkSeed(0, 0, 0)
Entropy == {<<FALSE, NoSeed>>} \cup {<<TRUE, seed>> : seed \in SpecSeeds}

FundPool ==
    \E a \in FundAmounts :
        /\ Live
        /\ Commit("fund_pool", NoSid, 0, 0, fund_pool(State, "op", a))

PlaceBet ==
    \E who \in Bettors, t \in BetTemplates :
      \E b \in BetChoices(t[1]) :
        /\ Live
        /\ Commit("place_bet", <<who[1], Hash(who[2])>>, t[1], 0,
                  place_bet(State, clock, who[1], t[3], t[1], Hash(who[2]), b, t[2]))

Reveal ==
    \E sid \in UsedSids :
      \E a \in RevealArgs(sid), e \in Entropy :
        /\ Live
        /\ Commit("reveal", sid, a[1], a[2],
                  reveal(State, clock, IF a[3] THEN sid[1] ELSE OtherPlayer(sid[1]),
                         sid, a[2], a[1], e[1], e[2]))

RevealDelegated ==
    \E sid \in UsedSids :
      \E a \in RevealArgs(sid), e \in Entropy :
        /\ Live
        /\ Commit("reveal_delegated", sid, a[1], a[2],
                  reveal_delegated(State, tokens, clock,
                                   IF a[3] THEN "dkey" ELSE OtherPlayer(sid[1]),
                                   sid, a[2], a[1], e[1], e[2]))

ClaimForfeit ==
    \E sid \in UsedSids :
        /\ Live
        /\ Commit("claim_forfeit", sid, 0, 0, claim_forfeit(State, clock, sid))

EmergencyRefund ==
    \E sid \in UsedSids, signer \in Players :
        /\ Live
        /\ Commit("emergency_refund", sid, 0, 0, emergency_refund(State, clock, signer, sid))

EmergencyPlayerRefund ==
    \E sid \in UsedSids :
        /\ Live
        /\ Commit("emergency_player_refund", sid, 0, 0, emergency_player_refund(State, sid))

SetPaused ==
    \E signer \in Operators, b \in BOOLEAN :
        /\ Live
        /\ b # pool.paused
        /\ Commit("set_paused", NoSid, 0, 0, set_paused(State, signer, b))

RequestWithdrawal ==
    \E signer \in Operators, a \in {pool.total_balance \div 5, pool.total_balance \div 5 + 1} :
        /\ Live
        /\ Commit("request_withdrawal", NoSid, 0, 0, request_withdrawal(State, clock, signer, a))

ExecuteWithdrawal ==
    \E signer \in Operators :
        /\ Live
        /\ Commit("execute_withdrawal", NoSid, 0, 0, execute_withdrawal(State, clock, signer))

CancelWithdrawal ==
    \E signer \in Operators :
        /\ Live
        /\ pool.withdrawal_request # <<>>
        /\ Commit("cancel_withdrawal", NoSid, 0, 0, cancel_withdrawal(State, signer))

ClaimHouseFees ==
    \E signer \in Operators, a \in {pool.house_fees_earned, pool.house_fees_earned + 1} :
        /\ Live
        /\ Commit("claim_house_fees", NoSid, 0, 0, claim_house_fees(State, signer, a))

ReinvestHouseFees ==
    \E signer \in Operators, a \in {pool.house_fees_earned, pool.house_fees_earned + 1} :
        /\ Live
        /\ Commit("reinvest_house_fees", NoSid, 0, 0, reinvest_house_fees(State, signer, a))

ProposeAuthorityTransfer ==
    \E signer \in Operators, na \in Operators :
        /\ Live
        /\ Commit("propose_authority_transfer", NoSid, 0, 0,
                  propose_authority_transfer(State, clock, signer, na))

CancelAuthorityTransfer ==
    \E signer \in Operators :
        /\ Live
        /\ Commit("cancel_authority_transfer", NoSid, 0, 0,
                  cancel_authority_transfer(State, signer))

ExecuteAuthorityTransfer ==
    \E signer \in Operators :
        /\ Live
        /\ Commit("execute_authority_transfer", NoSid, 0, 0,
                  execute_authority_transfer(State, clock, signer))

CreateSession ==
    \E pl \in Players, secs \in {3600, MAX_SESSION_SECS + 1}, gas \in {MAX_GAS} :
        /\ Live
        /\ TokenCommit("create_session",
                       create_session(lamports, tokens, clock, pl, "dkey", secs, gas))

CloseSession ==
    \E pl \in Players :
        /\ Live
        /\ TokenCommit("close_session", close_session(lamports, tokens, pl))

AdvanceClock ==
    \E j \in ClockJumps :
        /\ Live
        /\ Tick(j)
        /\ steps' = steps + 1

Next ==
    \/ FundPool
    \/ PlaceBet
    \/ Reveal
    \/ RevealDelegated
    \/ ClaimForfeit
    \/ EmergencyRefund
    \/ EmergencyPlayerRefund
    \/ SetPaused
    \/ RequestWithdrawal
    \/ ExecuteWithdrawal
    \/ CancelWithdrawal
    \/ ClaimHouseFees
    \/ ReinvestHouseFees
    \/ ProposeAuthorityTransfer
    \/ CancelAuthorityTransfer
    \/ ExecuteAuthorityTransfer
    \/ CreateSession
    \/ CloseSession
    \/ AdvanceClock

Spec == Init /\ [][Next]_vars

\* ------------------------------------------------------------------------
\* SpecDrain: alice's coin flip stays pending while the authority withdraws
\* 20% of the pool every 48 hours.  bob funds the pool with 20 SOL, alice
\* bets the limit.  The clock moves only while a pending bet waits for it: to
\* the bet's resolve slot, and to the unlock time of a requested withdrawal.
\* ------------------------------------------------------------------------
MaxDrainDays == 32

DrainSid == <<"alice", Hash(1)>>

DrainLamports ==
    [a \in Wallets \cup {POOL} |->
        CASE a = POOL -> POOL_RENT
          [] a = "alice" -> 6100
          [] a = "bob" -> TWENTY_SOL
          [] OTHER -> 0]

InitDrain == InitWith(DrainLamports)

\* a rejected instruction is explored no further
LiveDrain == last.err = "Ok"

DrainStep(op, sid, game, nonce, r) ==
    /\ Record(op, sid, game, nonce, r)
    /\ UNCHANGED steps

DrainFundPool ==
    /\ LiveDrain
    /\ DrainStep("fund_pool", NoSid, 0, 0, fund_pool(State, "bob", TWENTY_SOL))

\* alice bets in the first slot
DrainPlaceBet ==
    /\ LiveDrain
    /\ clock = InitClock
    /\ DrainStep("place_bet", DrainSid, 0, 0,
                 place_bet(State, clock, "alice", SYSTEM, 0, Hash(1),
                           get_max_bet(pool.total_balance, 0), <<0, 0, 0>>))

DrainReveal ==
    \E b0 \in {0, 99} :
        /\ LiveDrain
        /\ DrainStep("reveal", DrainSid, 0, 1,
                  reveal(State, clock, "alice", DrainSid, 1, 0, TRUE, MkSeed(b0, 0, 0)))

DrainRevealDelegated ==
    \E b0 \in {0, 99} :
        /\ LiveDrain
        /\ DrainStep("reveal_delegated", DrainSid, 0, 1,
                  reveal_delegated(State, tokens, clock, "dkey", DrainSid, 1, 0, TRUE,
                                   MkSeed(b0, 0, 0)))

\* alice authorizes the session key before play
DrainCreateSession ==
    /\ LiveDrain
    /\ clock = InitClock
    /\ TokenRecord("create_session",
                   create_session(lamports, tokens, clock, "alice", "dkey", MAX_SESSION_SECS, 0))
    /\ UNCHANGED steps

DrainClaimForfeit ==
    /\ LiveDrain
    /\ DrainStep("claim_forfeit", DrainSid, 0, 0, claim_forfeit(State, clock, DrainSid))

DrainEmergencyRefund ==
    /\ LiveDrain
    /\ DrainStep("emergency_refund", DrainSid, 0, 0,
              emergency_refund(State, clock, "alice", DrainSid))

DrainEmergencyPlayerRefund ==
    /\ LiveDrain
    /\ DrainStep("emergency_player_refund", DrainSid, 0, 0,
              emergency_player_refund(State, DrainSid))

\* the largest withdrawal request_withdrawal accepts
DrainRequestWithdrawal ==
    /\ LiveDrain
    /\ DrainStep("request_withdrawal", NoSid, 0, 0,
              request_withdrawal(State, clock, "op", pool.total_balance \div 5))

DrainExecuteWithdrawal ==
    /\ LiveDrain
    /\ DrainStep("execute_withdrawal", NoSid, 0, 0, execute_withdrawal(State, clock, "op"))

DrainCancelWithdrawal ==
    /\ LiveDrain
    /\ pool.withdrawal_request # <<>>
    /\ DrainStep("cancel_withdrawal", NoSid, 0, 0, cancel_withdrawal(State, "op"))

DrainClaimHouseFees ==
    /\ LiveDrain
    /\ DrainStep("claim_house_fees", NoSid, 0, 0,
              claim_house_fees(State, "op", pool.house_fees_earned))

DrainReinvestHouseFees ==
    /\ LiveDrain
    /\ DrainStep("reinvest_house_fees", NoSid, 0, 0,
              reinvest_house_fees(State, "op", pool.house_fees_earned))

\* time passes until the pending bet can be revealed
DrainAwaitReveal ==
    /\ LiveDrain
    /\ Pending(sessions[DrainSid])
    /\ clock.slot < sessions[DrainSid].resolve_slot
    /\ Tick(<<60, 24>>)
    /\ UNCHANGED steps

\* 48 hours pass (432000 slots) while the bet is pending and the withdrawal locked
DrainAwaitTimelock ==
    /\ LiveDrain
    /\ Pending(sessions[DrainSid])
    /\ pool.withdrawal_request # <<>>
    /\ clock.unix_timestamp < pool.withdrawal_request[1].unlocks_at
    /\ clock.unix_timestamp < InitClock.unix_timestamp + MaxDrainDays * 86400
    /\ Tick(<<432000, TIMELOCK_SECS>>)
    /\ UNCHANGED steps

NextDrain ==
    \/ DrainFundPool
    \/ DrainPlaceBet
    \/ DrainReveal
    \/ DrainRevealDelegated
    \/ DrainCreateSession
    \/ DrainClaimForfeit
    \/ DrainEmergencyRefund
    \/ DrainEmergencyPlayerRefund
    \/ DrainRequestWithdrawal
    \/ DrainExecuteWithdrawal
    \/ DrainCancelWithdrawal
    \/ DrainClaimHouseFees
    \/ DrainReinvestHouseFees
    \/ DrainAwaitReveal
    \/ DrainAwaitTimelock

SpecDrain == InitDrain /\ [][NextDrain]_vars

\* ------------------------------------------------------------------------
\* SpecRun: a run on the pool.  The authority funds the pool with 50 SOL;
\* alice and bob place dice bets "under 28" (3.39x), each paying the payout
\* cap of the pool, up to MaxRunBets of them, all in the first slot.  Bets
\* are revealed and refunded in the order they were placed.
\* ------------------------------------------------------------------------
MaxRunBets == 16

RunPlayer(i) == IF i <= 9 THEN "alice" ELSE "bob"
RunNonce(i) == IF i <= 9 THEN i ELSE i - 9
RunSid(i) == <<RunPlayer(i), Hash(RunNonce(i))>>

RunLamports ==
    [a \in Wallets \cup {POOL} |->
        CASE a = POOL -> POOL_RENT
          [] a \in Players -> TWENTY_SOL
          [] a = "op" -> FIFTY_SOL
          [] OTHER -> 0]

InitRun == InitWith(RunLamports)

\* the largest dice bet under 28 whose payout is within 10% of 50 SOL
RunBet == (get_max_payout_cap(FIFTY_SOL) * 28) \div 95

\* roll 0 (a win) and roll 99 (a loss), the jackpot draw above the cap
RunSeeds == {MkSeed(b0, 0, 100) : b0 \in {0, 99}}

\* a rejected instruction is explored no further
LiveRun == last.err = "Ok"

RunPending == {i \in 1..MaxRunBets : Pending(sessions[RunSid(i)])}
\* the pending bet placed first
RunFirst == CHOOSE i \in RunPending : \A j \in RunPending : i <= j

RunFundPool ==
    /\ LiveRun
    /\ DrainStep("fund_pool", NoSid, 0, 0, fund_pool(State, "op", FIFTY_SOL))

RunPlaceBet ==
    \E b \in {RunBet, MIN_BET - 1} :
        LET i == pool.total_bets + 1
        IN /\ LiveRun
           /\ clock = InitClock
           /\ i <= MaxRunBets
           /\ DrainStep("place_bet", RunSid(i), 2, 0,
                        place_bet(State, clock, RunPlayer(i), SYSTEM, 2,
                                  Hash(RunNonce(i)), b, <<28, 0, 0>>))

\* the right nonce or another one
RunReveal ==
    \E seed \in RunSeeds, d \in {0, 1} :
        /\ LiveRun
        /\ RunPending # {}
        /\ LET i == RunFirst
               n == RunNonce(i) + d
           IN DrainStep("reveal", RunSid(i), 2, n,
                        reveal(State, clock, RunPlayer(i), RunSid(i), n, 2, TRUE, seed))

RunEmergencyRefund ==
    /\ LiveRun
    /\ RunPending # {}
    /\ DrainStep("emergency_refund", RunSid(RunFirst), 0, 0,
                 emergency_refund(State, clock, RunPlayer(RunFirst), RunSid(RunFirst)))

RunEmergencyPlayerRefund ==
    /\ LiveRun
    /\ RunPending # {}
    /\ DrainStep("emergency_player_refund", RunSid(RunFirst), 0, 0,
                 emergency_player_refund(State, RunSid(RunFirst)))

\* time passes until the first pending bet can be revealed
RunAwaitReveal ==
    /\ LiveRun
    /\ RunPending # {}
    /\ clock.slot < sessions[RunSid(RunFirst)].resolve_slot
    /\ Tick(<<60, 24>>)
    /\ UNCHANGED steps

\* the reveal window of the first pending bet passes
RunAwaitForfeit ==
    /\ LiveRun
    /\ RunPending # {}
    /\ clock.slot >= sessions[RunSid(RunFirst)].resolve_slot
    /\ clock.slot <= sessions[RunSid(RunFirst)].forfeit_slot
    /\ Tick(<<1100, 440>>)
    /\ UNCHANGED steps

NextRun ==
    \/ RunFundPool
    \/ RunPlaceBet
    \/ RunReveal
    \/ RunEmergencyRefund
    \/ RunEmergencyPlayerRefund
    \/ RunAwaitReveal
    \/ RunAwaitForfeit

SpecRun == InitRun /\ [][NextRun]_vars

\* ------------------------------------------------------------------------
\* SpecSettle: one settlement after another.  The authority funds the pool
\* with 500 SOL; alice places coin-flip bets, one at a time, up to
\* MaxSettleBets of them, naming no referrer, herself, a referrer holding
\* exactly 0.05 SOL or a referrer holding one unit less; each bet is revealed
\* as a win or a loss with the jackpot draw 0, one below the bet's threshold
\* or exactly the threshold.
\* ------------------------------------------------------------------------
MaxSettleBets == 2

SettleFund == 10 * FIFTY_SOL

SettleLamports ==
    [a \in Wallets \cup {POOL} |->
        CASE a = POOL -> POOL_RENT
          [] a = "alice" -> 10000000
          [] a = "ref_rich" -> REF_MIN_BALANCE
          [] a = "ref_poor" -> REF_MIN_BALANCE - 1
          [] a = "op" -> 10000000
          [] OTHER -> 0]

InitSettle == InitWith(SettleLamports)

\* <<bet, referrer>>: bets below and at JACKPOT_MIN_BET, with a 2% commission
\* below and above REF_MIN_COMMISSION, and with a 1% jackpot cut below and
\* at JACKPOT_MIN_POOL
SettleTemplates ==
    {<<JACKPOT_MIN_BET - 1, SYSTEM>>, <<JACKPOT_MIN_BET, "alice">>,
     <<50 * REF_MIN_COMMISSION - 1, "ref_rich">>, <<50 * REF_MIN_COMMISSION, "ref_rich">>,
     <<60 * REF_MIN_COMMISSION, "ref_poor">>,
     <<100 * (JACKPOT_MIN_POOL - 1), SYSTEM>>, <<100 * JACKPOT_MIN_POOL, "ref_poor">>}

\* a seed with byte 0 (the outcome byte used by the coin flip) and bytes
\* 24..27 (the jackpot draw, little-endian) given, every other byte 0
DrawSeed(b0, draw) ==
    [i \in 1..32 |->
        CASE i = 1 -> b0
          [] i = 25 -> draw % 256
          [] i = 26 -> (draw \div 256) % 256
          [] i = 27 -> (draw \div 65536) % 256
          [] i = 28 -> (draw \div 16777216) % 256
          [] OTHER -> 0]

SettleSid(i) == <<"alice", Hash(i)>>

SettlePending == {i \in 1..MaxSettleBets : Pending(sessions[SettleSid(i)])}

\* the inputs of an instruction that `last` does not keep: the jackpot draw of
\* the seed a reveal was given (-1 when there is no seed) and the signer
Input(draw, signer) == <<[draw |-> draw, signer |-> signer]>>

\* one instruction of SpecSettle and SpecThin: as Record, and arg keeps the
\* Input of an accepted reveal or emergency_refund
SettleStep(op, sid, nonce, r, draw) ==
    LET post == Host(State, r)
        ok == r.err = "Ok"
    IN /\ pool' = post.pool
       /\ lamports' = post.lamports
       /\ sessions' = post.sessions
       /\ last' = [op |-> op, sid |-> sid, game |-> 0,
                   nonce |-> IF ok THEN nonce ELSE 0, err |-> r.err]
       /\ resolved' = IF ok /\ op \in ResolutionOps
                      THEN [resolved EXCEPT ![sid] = @ + 1] ELSE resolved
       /\ placed' = IF ok /\ op = "place_bet"
                    THEN [placed EXCEPT ![sid] = @ + 1] ELSE placed
       /\ arg' = IF ok THEN draw ELSE <<>>
       /\ UNCHANGED <<res, clock, tokens, steps>>

SettleFundPool ==
    /\ LiveRun
    /\ pool.total_balance = 0
    /\ SettleStep("fund_pool", NoSid, 0, fund_pool(State, "op", SettleFund), <<>>)

SettlePlaceBet ==
    \E t \in SettleTemplates :
        LET i == pool.total_bets + 1
        IN /\ LiveRun
           /\ SettlePending = {}
           /\ i <= MaxSettleBets
           /\ SettleStep("place_bet", SettleSid(i), 0,
                         place_bet(State, clock, "alice", t[2], 0, Hash(i), t[1],
                                   <<0, 0, 0>>), <<>>)

SettleReveal ==
    \E i \in SettlePending, b0 \in {0, 99}, d \in {0, 1, 2} :
        LET threshold == JackpotThreshold(sessions[SettleSid(i)].bet_lamports)
            draw == CASE d = 0 -> 0 [] d = 1 -> threshold - 1 [] OTHER -> threshold
        IN /\ LiveRun
           /\ SettleStep("reveal", SettleSid(i), i,
                         reveal(State, clock, "alice", SettleSid(i), i, 0, TRUE,
                                DrawSeed(b0, draw)),
                         Input(JackpotRollOf(DrawSeed(b0, draw)), "alice"))

\* time passes until the pending bet can be revealed
SettleAwaitReveal ==
    \E i \in SettlePending :
        /\ LiveRun
        /\ clock.slot < sessions[SettleSid(i)].resolve_slot
        /\ Tick(<<60, 24>>)
        /\ UNCHANGED steps

NextSettle ==
    \/ SettleFundPool
    \/ SettlePlaceBet
    \/ SettleReveal
    \/ SettleAwaitReveal

SpecSettle == InitSettle /\ [][NextSettle]_vars

\* ------------------------------------------------------------------------
\* SpecThin: a pool drained around a bet that is never revealed.  The authority
\* funds the pool with 400 SOL; alice loses a 10 SOL coin flip, which fills the
\* jackpot reserve to 0.1 SOL, and places a second 10 SOL bet that she leaves
\* pending; the authority withdraws every 48 hours, 20% of the liquid pool or
\* what the liquid pool holds above ThinTarget; alice places a 0.02 SOL bet,
\* takes the emergency refund of the 10 SOL bet and reveals the small bet.
\* ------------------------------------------------------------------------
MaxThinDays == 36
MaxThinCancels == 1

ThinFund == 8 * FIFTY_SOL

ThinBets == <<100 * JACKPOT_MIN_POOL, 100 * JACKPOT_MIN_POOL, JACKPOT_MIN_BET>>

\* the liquid pool the last withdrawal leaves: the pending bet and 0.01 SOL
ThinTarget == ThinBets[2] + 100

ThinPending == {i \in 1..3 : Pending(sessions[SettleSid(i)])}

ThinFundPool ==
    /\ LiveRun
    /\ pool.total_balance = 0
    /\ SettleStep("fund_pool", NoSid, 0, fund_pool(State, "op", ThinFund), <<>>)

\* the two 10 SOL bets before the first withdrawal, the second after the first
\* is settled; the small bet at any time no withdrawal is requested
ThinPlaceBet ==
    LET i == pool.total_bets + 1
    IN /\ LiveRun
       /\ i <= 3
       /\ i <= 2 => /\ ThinPending = {}
                    /\ clock.unix_timestamp < InitClock.unix_timestamp + TIMELOCK_SECS
       /\ i = 3 => pool.withdrawal_request = <<>>
       /\ SettleStep("place_bet", SettleSid(i), 0,
                     place_bet(State, clock, "alice", SYSTEM, 0, Hash(i), ThinBets[i],
                               <<0, 0, 0>>), <<>>)

\* a win or a loss, with the jackpot draw 0 or the threshold, tried until the
\* reveal window has passed
ThinReveal ==
    \E i \in ThinPending, b0 \in {0, 99}, d \in {0, 1} :
        LET threshold == JackpotThreshold(sessions[SettleSid(i)].bet_lamports)
            seed == DrawSeed(b0, d * threshold)
        IN /\ LiveRun
           /\ clock.slot <= sessions[SettleSid(i)].forfeit_slot + 1
           /\ SettleStep("reveal", SettleSid(i), i,
                         reveal(State, clock, "alice", SettleSid(i), i, 0, TRUE, seed),
                         Input(JackpotRollOf(seed), "alice"))

\* signed by the player or by somebody else
ThinEmergencyRefund ==
    \E i \in ThinPending, signer \in Players :
        /\ LiveRun
        /\ SettleStep("emergency_refund", SettleSid(i), 0,
                      emergency_refund(State, clock, signer, SettleSid(i)),
                      Input(-1, signer))

ThinEmergencyPlayerRefund ==
    \E i \in ThinPending :
        /\ LiveRun
        /\ SettleStep("emergency_player_refund", SettleSid(i), 0,
                      emergency_player_refund(State, SettleSid(i)), <<>>)

\* the worst-case payout of the 10 SOL bet
ThinWorst == get_worst_payout(ThinBets[2], 0, <<0, 0, 0>>)

\* the levels a withdrawal brings the liquid pool to exactly
ThinLevels == {ThinTarget, ThinWorst, ThinWorst - 1}

\* requested while the second bet is pending and the small bet not yet placed:
\* 20% of the liquid pool, or what it holds above one of ThinLevels, the last
\* withdrawal then
ThinRequestWithdrawal ==
    \E amount \in {pool.total_balance \div 5}
                      \cup {pool.total_balance - level : level \in ThinLevels} :
        /\ LiveRun
        /\ amount > 0
        /\ pool.total_balance \notin ThinLevels
        /\ ThinPending = {2}
        /\ SettleStep("request_withdrawal", NoSid, 0,
                      request_withdrawal(State, clock, "op", amount), <<>>)

ThinExecuteWithdrawal ==
    /\ LiveRun
    /\ SettleStep("execute_withdrawal", NoSid, 0, execute_withdrawal(State, clock, "op"),
                  <<>>)

\* time passes until a pending bet can be revealed
ThinAwaitReveal ==
    \E i \in ThinPending :
        /\ LiveRun
        /\ clock.slot < sessions[SettleSid(i)].resolve_slot
        /\ Tick(<<60, 24>>)
        /\ UNCHANGED steps

\* the reveal window of the small bet passes: time moves to its forfeit_slot,
\* then one slot further
ThinAwaitForfeit ==
    LET s == sessions[SettleSid(3)]
        j == IF clock.slot < s.forfeit_slot THEN s.forfeit_slot - clock.slot ELSE 1
    IN /\ LiveRun
       /\ 3 \in ThinPending
       /\ clock.slot >= s.resolve_slot
       /\ clock.slot <= s.forfeit_slot
       /\ Tick(<<j, (j * 2) \div 5>>)
       /\ UNCHANGED steps

\* once the liquid pool is below twice ThinWorst the authority may cancel its
\* request, MaxThinCancels times at most (counted in steps)
ThinCancelWithdrawal ==
    /\ LiveRun
    /\ pool.withdrawal_request # <<>>
    /\ pool.total_balance < 2 * ThinWorst
    /\ steps < MaxThinCancels
    /\ steps' = steps + 1
    /\ Record("cancel_withdrawal", NoSid, 0, 0, cancel_withdrawal(State, "op"))

\* the 48 hours of a locked withdrawal pass: time moves to one second before
\* unlocks_at, then one second further
ThinAwaitTimelock ==
    LET left == pool.withdrawal_request[1].unlocks_at - clock.unix_timestamp
        j == IF left > 1 THEN left - 1 ELSE 1
    IN /\ LiveRun
       /\ pool.withdrawal_request # <<>>
       /\ left > 0
       /\ clock.unix_timestamp < InitClock.unix_timestamp + MaxThinDays * 86400
       /\ Tick(<<(j * 5) \div 2, j>>)
       /\ UNCHANGED steps

NextThin ==
    \/ ThinFundPool
    \/ ThinPlaceBet
    \/ ThinReveal
    \/ ThinEmergencyRefund
    \/ ThinEmergencyPlayerRefund
    \/ ThinRequestWithdrawal
    \/ ThinExecuteWithdrawal
    \/ ThinCancelWithdrawal
    \/ ThinAwaitReveal
    \/ ThinAwaitForfeit
    \/ ThinAwaitTimelock

SpecThin == InitSettle /\ [][NextThin]_vars

\* ------------------------------------------------------------------------
\* SpecRisk: fund_pool and place_bet, the pool's liquid balance and the bet
\* taken around every tier boundary
\* ------------------------------------------------------------------------
MaxRiskSteps == 2

\* one unit below and exactly 5, 20 and 50 SOL, and 300 SOL
RiskFunds == {49999, 50000, 199999, 200000, 499999, 500000, 3000000}

\* <<game_type, game_config, 100 * the game's payout multiplier>>
RiskTemplates ==
    {<<0, <<0, 0, 0>>, 190>>,      \* coin flip, 1.9x
     <<1, <<8, 8, 0>>, 24320>>,    \* grid, one cell, 243.2x
     <<1, <<8, 8, 3>>, 496>>,      \* grid, 7 x 7 cells, 4.96x
     <<2, <<95, 0, 0>>, 100>>,     \* dice under 95, 1.0x
     <<2, <<2, 0, 0>>, 4750>>,     \* dice under 2, 47.5x
     <<3, <<1, 0, 0>>, 190>>,      \* tower, 1 floor, 1.9x
     <<3, <<6, 0, 0>>, 6080>>}     \* tower, 6 floors, 60.8x

\* the bets tried against a liquid pool p in a game paying m100 / 100: the
\* minimum; 1%, 2% and 3% of the pool and one more; the bets that pay 3%, 5%,
\* 8% and 10% of the pool or 25 SOL, and one more
RiskBets(p, m100) ==
    {MIN_BET}
        \cup {(p * k) \div 100 + d : k \in 1..3, d \in 0..1}
        \cup {(p * c) \div m100 + d : c \in {3, 5, 8, 10}, d \in 0..1}
        \cup {(HARD_CAP * 100) \div m100 + d : d \in 0..1}

LiveRisk == last.err = "Ok" /\ steps < MaxRiskSteps

RiskFundPool ==
    \E a \in RiskFunds :
        /\ LiveRisk
        /\ Commit("fund_pool", NoSid, 0, 0, fund_pool(State, "op", a))

RiskPlaceBet ==
    \E t \in RiskTemplates :
      \E b \in RiskBets(pool.total_balance, t[3]) :
        /\ LiveRisk
        /\ Commit("place_bet", <<"alice", Hash(1)>>, t[1], 0,
                  place_bet(State, clock, "alice", SYSTEM, t[1], Hash(1), b, t[2]))

NextRisk ==
    \/ RiskFundPool
    \/ RiskPlaceBet

SpecRisk == Init /\ [][NextRisk]_vars

\* ------------------------------------------------------------------------
\* SpecPure: one resolver call.  arg holds a bet placed at the initial clock
\* with any config, accepted by place_bet or not; the step resolves it on a
\* seed and records the payout beside get_worst_payout of the same bet.
\* ------------------------------------------------------------------------
PureConfigs ==
    {<<0, <<0, 0, 0>>>>, <<0, <<1, 0, 0>>>>}
        \cup {<<1, <<x, y, r>>>> : x \in {0, 8, 15, 16}, y \in {0, 8, 15, 16}, r \in 0..4}
        \cup {<<2, <<t, o, 0>>>> : t \in {1, 2, 3, 50, 95, 96, 97, 98}, o \in 0..2}
        \cup {<<3, <<f, b, 0>>>> : f \in {0, 1, 2, 6, 7}, b \in {0, 1, 2, 3, 63, 64}}

PureBets == {100, 149, 60001}

\* a seed with bytes 0 and 1 given and bytes 2..5 all c, every other byte 0
PathSeed(b0, b1, c) ==
    [i \in 1..32 |-> IF i = 1 THEN b0 ELSE IF i = 2 THEN b1
                     ELSE IF i \in 3..6 THEN c ELSE 0]

PureSeeds ==
    {PathSeed(b0, b1, c) : b0 \in {0, 1, 5, 8, 15, 98, 99}, b1 \in {0, 1, 5, 8, 15},
                           c \in {0, 1}}

InitPure ==
    /\ arg \in {<<[game |-> gc[1], config |-> gc[2], bet |-> b]>> :
                    gc \in PureConfigs, b \in PureBets}
    /\ res = <<>>
    /\ clock = InitClock
    /\ pool = InitPool
    /\ lamports = InitLamports
    /\ sessions = [s \in SessionIds |-> EmptySession]
    /\ tokens = [p \in Players |-> <<>>]
    /\ last = [op |-> "initialize", sid |-> NoSid, game |-> 0, nonce |-> 0, err |-> "Ok"]
    /\ resolved = [s \in SessionIds |-> 0]
    /\ placed = [s \in SessionIds |-> 0]
    /\ steps = 0

PureResolve ==
    \E seed \in PureSeeds :
        LET a == arg[1]
            session == NewSession(clock, "alice", SYSTEM, a.game, Hash(1), a.bet, a.config)
        IN /\ res = <<>>
           /\ res' = <<[accepted |-> ConfigError(a.game, a.config) = "Ok",
                        out |-> Resolve(a.game, seed, session),
                        worst |-> get_worst_payout(a.bet, a.game, a.config)]>>
           /\ UNCHANGED <<arg, clock, pool, lamports, sessions, tokens, last, resolved,
                          placed, steps>>

NextPure == PureResolve

SpecPure == InitPure /\ [][NextPure]_vars

\* ------------------------------------------------------------------------
\* SpecThreshold: the jackpot threshold of a bet and of the next larger bet,
\* for the bets up to MaxThresholdBet units, the bets around the one whose
\* threshold first reaches the cap, and the largest bets the risk limits allow
\* ------------------------------------------------------------------------
MaxThresholdBet == 40

\* the largest bet whose uncapped threshold is within the cap
LastUncappedBet == JACKPOT_ROLL_CAP \div (JACKPOT_RATE * UNITS_TO_JACKPOT_BASE)

ThresholdBets ==
    (0..MaxThresholdBet) \cup {JACKPOT_MIN_BET - 1, JACKPOT_MIN_BET}
        \cup ((LastUncappedBet - 10)..(LastUncappedBet + 10))
        \cup {HARD_CAP - 1, HARD_CAP, 4000000}

InitThreshold ==
    /\ arg \in {<<bet>> : bet \in ThresholdBets}
    /\ res = <<>>
    /\ clock = InitClock
    /\ pool = InitPool
    /\ lamports = InitLamports
    /\ sessions = [s \in SessionIds |-> EmptySession]
    /\ tokens = [p \in Players |-> <<>>]
    /\ last = [op |-> "initialize", sid |-> NoSid, game |-> 0, nonce |-> 0, err |-> "Ok"]
    /\ resolved = [s \in SessionIds |-> 0]
    /\ placed = [s \in SessionIds |-> 0]
    /\ steps = 0

ThresholdApply ==
    /\ res = <<>>
    /\ res' = <<[threshold |-> JackpotThreshold(arg[1]),
                 next |-> JackpotThreshold(arg[1] + 1)]>>
    /\ UNCHANGED <<arg, clock, pool, lamports, sessions, tokens, last, resolved,
                   placed, steps>>

NextThreshold == ThresholdApply

SpecThreshold == InitThreshold /\ [][NextThreshold]_vars

\* ------------------------------------------------------------------------
\* SpecAuth: the authority is proposed, cancelled and executed over, signed by
\* the authority, by the proposed identity and by a third wallet, at the time
\* of the proposal, one second before authority_transfer_at, at it and later
\* ------------------------------------------------------------------------
MaxAuthDays == 7

\* the identities a transfer is proposed to: the authority itself, the default
\* address, a second operator and a player's wallet
AuthCandidates == Operators \cup {SYSTEM, "alice"}
\* who signs
AuthSigners == Operators \cup {"alice"}

\* one instruction of SpecAuth: as Record; arg keeps its signer, and res the
\* time of the proposal in force (<<>> when there is none)
AuthRecord(op, r, signer) ==
    LET post == Host(State, r)
        ok == r.err = "Ok"
    IN /\ pool' = post.pool
       /\ lamports' = post.lamports
       /\ sessions' = post.sessions
       /\ last' = [op |-> op, sid |-> NoSid, game |-> 0, nonce |-> 0, err |-> r.err]
       /\ arg' = Input(-1, signer)
       /\ res' = IF ok /\ op = "propose_authority_transfer"
                 THEN <<clock.unix_timestamp>>
                 ELSE IF ok /\ op \in {"cancel_authority_transfer",
                                       "execute_authority_transfer"}
                 THEN <<>> ELSE res
       /\ UNCHANGED <<clock, tokens, resolved, placed, steps>>

AuthPropose ==
    \E signer \in AuthSigners, na \in AuthCandidates :
        /\ LiveRun
        /\ AuthRecord("propose_authority_transfer",
                      propose_authority_transfer(State, clock, signer, na), signer)

AuthCancel ==
    \E signer \in AuthSigners :
        /\ LiveRun
        /\ AuthRecord("cancel_authority_transfer",
                      cancel_authority_transfer(State, signer), signer)

AuthExecute ==
    \E signer \in AuthSigners :
        /\ LiveRun
        /\ AuthRecord("execute_authority_transfer",
                      execute_authority_transfer(State, clock, signer), signer)

\* the authority's switch, thrown by the old and by the new authority
AuthSetPaused ==
    \E signer \in AuthSigners :
        /\ LiveRun
        /\ AuthRecord("set_paused", set_paused(State, signer, ~pool.paused), signer)

\* the 72 hours of a proposal pass: time moves to one second before
\* authority_transfer_at, then one second further
AuthAwaitTimelock ==
    LET left == pool.authority_transfer_at - clock.unix_timestamp
        j == IF left > 1 THEN left - 1 ELSE 1
    IN /\ LiveRun
       /\ pool.pending_authority # <<>>
       /\ left > 0
       /\ clock.unix_timestamp < InitClock.unix_timestamp + MaxAuthDays * 86400
       /\ Tick(<<(j * 5) \div 2, j>>)
       /\ UNCHANGED steps

NextAuth ==
    \/ AuthPropose
    \/ AuthCancel
    \/ AuthExecute
    \/ AuthSetPaused
    \/ AuthAwaitTimelock

SpecAuth == Init /\ [][NextAuth]_vars

\* ------------------------------------------------------------------------
\* SpecResolve: one resolver call on a session place_bet accepted.  arg holds
\* the game, its config, the bet and the 32-byte seed; the step writes what
\* the game's resolver returned.
\* ------------------------------------------------------------------------
MaxResolveBet == 3

\* bets that 100 does not divide, 0.02 SOL and 6 SOL + 1 unit
ResolveBets == (1..MaxResolveBet) \cup {149, 200, 60001}

\* a seed with bytes 0..8 given by t, every other byte 0
SeedOf(t) == [i \in 1..32 |-> IF i <= Len(t) THEN t[i] ELSE 0]

\* seeds of the roll games: the low byte around the coin's and the dice's
\* thresholds, bytes 1 and 7 that move the roll, byte 8 that does not
RollSeeds ==
    {SeedOf(<<b0, b1, 0, 0, 0, 0, 0, b7, b8>>) :
        b0 \in {0, 1, 13, 40, 49, 50, 51, 99, 100, 149, 255}, b1 \in {0, 1, 255},
        b7 \in {0, 1, 255}, b8 \in {0, 255}}

\* seeds of the grid: bytes 0 and 1 below and above 16
GridSeeds ==
    {SeedOf(<<b0, b1>>) : b0 \in {0, 6, 8, 15, 16, 23, 27, 255},
                          b1 \in {0, 6, 8, 15, 16, 23, 27, 255}}

\* seeds of the tower: the six trap lanes are the bits of traps, written as
\* the bytes 0/1 (hi = 0) or 254/255 (hi = 254), byte 6 is never read
TowerSeeds ==
    {SeedOf(<<hi + PathBit(traps, 0), hi + PathBit(traps, 1), hi + PathBit(traps, 2),
              hi + PathBit(traps, 3), hi + PathBit(traps, 4), hi + PathBit(traps, 5),
              1 - PathBit(traps, 0)>>) : traps \in 0..63, hi \in {0, 254}}

\* <<game_type, game_config>>: configs at and just outside the limits of
\* place_bet's checks; InitResolve keeps those place_bet accepts
ResolveConfigs ==
    {<<0, <<0, 0, 0>>>>}
        \cup {<<1, <<x, y, r>>>> : x \in {0, 8, 15}, y \in {0, 8, 15}, r \in 0..4}
        \cup {<<2, <<t, o, 0>>>> : t \in {1, 2, 3, 4, 50, 95, 96, 97, 98}, o \in 0..1}
        \cup {<<3, <<f, b, 0>>>> : f \in 0..7, b \in 0..64}

ResolveSeeds(game) ==
    CASE game = 1 -> GridSeeds
      [] game = 3 -> TowerSeeds
      [] OTHER -> RollSeeds

InitResolve ==
    /\ arg \in {<<[game |-> gc[1], config |-> gc[2], bet |-> b, seed |-> seed]>> :
                    gc \in {c \in ResolveConfigs : ConfigError(c[1], c[2]) = "Ok"},
                    b \in ResolveBets, seed \in RollSeeds \cup GridSeeds \cup TowerSeeds}
    /\ arg[1].seed \in ResolveSeeds(arg[1].game)
    /\ arg[1].game = 3 => arg[1].bet \in {149, 200}
    /\ res = <<>>
    /\ clock = InitClock
    /\ pool = InitPool
    /\ lamports = InitLamports
    /\ sessions = [s \in SessionIds |-> EmptySession]
    /\ tokens = [p \in Players |-> <<>>]
    /\ last = [op |-> "initialize", sid |-> NoSid, game |-> 0, nonce |-> 0, err |-> "Ok"]
    /\ resolved = [s \in SessionIds |-> 0]
    /\ placed = [s \in SessionIds |-> 0]
    /\ steps = 0

ResolveApply ==
    LET a == arg[1]
        session == NewSession(clock, "alice", SYSTEM, a.game, Hash(1), a.bet, a.config)
    IN /\ res = <<>>
       /\ res' = <<Resolve(a.game, a.seed, session)>>
       /\ UNCHANGED <<arg, clock, pool, lamports, sessions, tokens, last, resolved,
                      placed, steps>>

NextResolve == ResolveApply

SpecResolve == InitResolve /\ [][NextResolve]_vars

\* ------------------------------------------------------------------------
\* SpecEdge: the odds of a bet.  arg holds a game, a config place_bet accepts
\* and a bet; the step calls the game's resolver once on every outcome of its
\* roll and records how many outcomes there are, how many of them win and
\* what a win pays.
\* ------------------------------------------------------------------------
MaxEdgeBet == 1

\* the smallest bets place_bet accepts, 0.02 SOL and 6 SOL + 1 unit
EdgeBets == (MIN_BET..(MIN_BET + MaxEdgeBet)) \cup {200, 60001}

\* every config of the four games up to one past the limits of place_bet's
\* checks; InitEdge keeps those place_bet accepts
EdgeConfigs ==
    {<<0, <<c, 0, 0>>>> : c \in 0..1}
        \cup {<<1, <<x, y, r>>>> : x \in 0..16, y \in 0..16, r \in 0..4}
        \cup {<<2, <<t, o, 0>>>> : t \in 0..99, o \in 0..2}
        \cup {<<3, <<f, b, 0>>>> : f \in 0..7, b \in 0..64}

\* one seed for every outcome of a game's roll: the rolls 0..99 of the coin
\* and the dice (bytes 1..7 zero), the 256 strikes of the grid, the 2^floors
\* trap patterns of a tower
EdgeSeeds(game, config) ==
    CASE game = 1 -> {SeedOf(<<x, y>>) : x \in 0..15, y \in 0..15}
      [] game = 3 -> {SeedOf([i \in 1..6 |-> PathBit(traps, i - 1)]) :
                         traps \in 0..(Pow2(config[1]) - 1)}
      [] OTHER -> {SeedOf(<<roll>>) : roll \in 0..99}

InitEdge ==
    /\ arg \in {<<[game |-> gc[1], config |-> gc[2], bet |-> b]>> :
                    gc \in {c \in EdgeConfigs : ConfigError(c[1], c[2]) = "Ok"},
                    b \in EdgeBets}
    /\ res = <<>>
    /\ clock = InitClock
    /\ pool = InitPool
    /\ lamports = InitLamports
    /\ sessions = [s \in SessionIds |-> EmptySession]
    /\ tokens = [p \in Players |-> <<>>]
    /\ last = [op |-> "initialize", sid |-> NoSid, game |-> 0, nonce |-> 0, err |-> "Ok"]
    /\ resolved = [s \in SessionIds |-> 0]
    /\ placed = [s \in SessionIds |-> 0]
    /\ steps = 0

EdgeResolveAll ==
    LET a == arg[1]
        session == NewSession(clock, "alice", SYSTEM, a.game, Hash(1), a.bet, a.config)
        seeds == EdgeSeeds(a.game, a.config)
        winning == {seed \in seeds : Resolve(a.game, seed, session).won}
    IN /\ res = <<>>
       /\ res' = <<[outcomes |-> Cardinality(seeds),
                    wins |-> Cardinality(winning),
                    payouts |-> {Resolve(a.game, seed, session).payout :
                                     seed \in winning}]>>
       /\ UNCHANGED <<arg, clock, pool, lamports, sessions, tokens, last, resolved,
                      placed, steps>>

NextEdge == EdgeResolveAll

SpecEdge == InitEdge /\ [][NextEdge]_vars

\* ------------------------------------------------------------------------
\* SpecDelay: the resolve delay of a bet.  The authority funds the pool with
\* 500 SOL; alice places up to MaxDelayBets coin-flip bets, at the initial
\* slot or later, of 0.01 SOL, of the amounts around 0.05 SOL, 0.1 SOL and
\* 0.5 SOL where the delay changes, and of 10 SOL.
\* ------------------------------------------------------------------------
MaxDelayBets == 2
MaxDelaySlots == 15

DelayBets ==
    {MIN_BET, MICRO_BET - 1, MICRO_BET, MICRO_BET + 1, 2 * MICRO_BET - 1, 2 * MICRO_BET,
     SCALED_BET_MAX - 1, SCALED_BET_MAX, SCALED_BET_MAX + 1, 20 * SCALED_BET_MAX}

DelayFundPool ==
    /\ LiveRun
    /\ pool.total_balance = 0
    /\ SettleStep("fund_pool", NoSid, 0, fund_pool(State, "op", SettleFund), <<>>)

DelayPlaceBet ==
    \E bet \in DelayBets :
        LET i == pool.total_bets + 1
        IN /\ LiveRun
           /\ i <= MaxDelayBets
           /\ SettleStep("place_bet", SettleSid(i), 0,
                         place_bet(State, clock, "alice", SYSTEM, 0, Hash(i), bet,
                                   <<0, 0, 0>>), <<>>)

\* time passes, five slots (two seconds) at a time
DelayTick ==
    /\ LiveRun
    /\ clock.slot < InitClock.slot + MaxDelaySlots
    /\ Tick(<<5, 2>>)
    /\ UNCHANGED steps

NextDelay ==
    \/ DelayFundPool
    \/ DelayPlaceBet
    \/ DelayTick

SpecDelay == InitSettle /\ [][NextDelay]_vars

\* ------------------------------------------------------------------------
\* SpecDelegate: session keys.  The authority funds the pool with 500 SOL;
\* alice places coin-flip bets one at a time; alice and bob authorize a
\* session key (alice also herself) for one second, for 24 hours or for a
\* second more, and close the authorization again; any of alice, bob and the session
\* key signs a delegated reveal, naming either player and either player's
\* SessionToken.  Time passes to a bet's resolve slot and, while a bet waits,
\* to the second before and the second of the bettor's authorization's expiry.
\* ------------------------------------------------------------------------
MaxDelegateBets == 2
MaxDelegations == 2

DelegateLamports ==
    [a \in Wallets \cup {POOL} |->
        CASE a = POOL -> POOL_RENT
          [] a = "alice" -> 10000000
          [] a = "bob" -> 2 * MAX_GAS
          [] a = "op" -> 10000000
          [] OTHER -> 0]

InitDelegate == InitWith(DelegateLamports)

\* the bets: one whose 1% cut fills the jackpot reserve to JACKPOT_MIN_POOL,
\* one at JACKPOT_MIN_BET
DelegateBets == {100 * JACKPOT_MIN_POOL, JACKPOT_MIN_BET}

DelegatePending == {i \in 1..MaxDelegateBets : Pending(sessions[SettleSid(i)])}

\* the accounts of RevealDelegated: the signer `delegate`, the `player`
\* account and the SessionToken account of token_of.  `session` has_one =
\* player; session_token is the PDA of the player account's key and has_one =
\* delegate, has_one = player
reveal_flip_delegated(st, toks, clk, delegate, player, token_of, sid, nonce, found, seed) ==
    IF ~st.sessions[sid].open THEN Fail("AccountNotInitialized", st)
    ELSE IF toks[token_of] = <<>> THEN Fail("AccountNotInitialized", st)
    ELSE IF st.sessions[sid].player # player THEN Fail("ConstraintHasOne", st)
    ELSE IF token_of # player THEN Fail("ConstraintSeeds", st)
    ELSE reveal_delegated(st, toks, clk, delegate, sid, nonce, 0, found, seed)

\* create_session or close_session by `player`: res keeps, for each
\* SessionToken, the time it was created at
DelegateTokenStep(op, player, r) ==
    LET ok == r.err = "Ok"
        others == SelectSeq(res, LAMBDA c : c.player # player)
    IN /\ lamports' = IF ok THEN r.lamports ELSE lamports
       /\ tokens' = IF ok THEN r.tokens ELSE tokens
       /\ last' = [op |-> op, sid |-> NoSid, game |-> 0, nonce |-> 0, err |-> r.err]
       /\ res' = IF ~ok THEN res
                 ELSE IF op = "create_session"
                 THEN Append(others, [player |-> player, at |-> clock.unix_timestamp])
                 ELSE others
       /\ arg' = <<>>
       /\ steps' = IF ok /\ op = "create_session" THEN steps + 1 ELSE steps
       /\ UNCHANGED <<clock, pool, sessions, resolved, placed>>

DelegateFundPool ==
    /\ LiveRun
    /\ pool.total_balance = 0
    /\ SettleStep("fund_pool", NoSid, 0, fund_pool(State, "op", SettleFund), <<>>)

DelegatePlaceBet ==
    \E b \in DelegateBets :
        LET i == pool.total_bets + 1
        IN /\ LiveRun
           /\ DelegatePending = {}
           /\ i <= MaxDelegateBets
           /\ SettleStep("place_bet", SettleSid(i), 0,
                         place_bet(State, clock, "alice", SYSTEM, 0, Hash(i), b,
                                   <<0, 0, 0>>), <<>>)

\* <<player, delegate, validity_secs, gas_lamports>>
DelegateGrants ==
    {<<"alice", "dkey", 1, MAX_GAS>>, <<"alice", "dkey", MAX_SESSION_SECS, MAX_GAS>>,
     <<"alice", "dkey", MAX_SESSION_SECS + 1, 0>>, <<"alice", "alice", MAX_SESSION_SECS, 0>>,
     <<"bob", "dkey", MAX_SESSION_SECS, 0>>}

DelegateCreateSession ==
    \E g \in DelegateGrants :
        /\ LiveRun
        /\ steps < MaxDelegations
        /\ DelegateTokenStep("create_session", g[1],
                             create_session(lamports, tokens, clock, g[1], g[2], g[3], g[4]))

DelegateCloseSession ==
    \E pl \in Players :
        /\ LiveRun
        /\ DelegateTokenStep("close_session", pl, close_session(lamports, tokens, pl))

DelegateReveal ==
    \E i \in DelegatePending, signer \in Players \cup Delegates, pl \in Players,
       token_of \in Players, b0 \in {0, 99}, d \in {0, 1} :
        LET threshold == JackpotThreshold(sessions[SettleSid(i)].bet_lamports)
            seed == DrawSeed(b0, IF d = 0 THEN 0 ELSE threshold)
        IN /\ LiveRun
           /\ SettleStep("reveal_delegated", SettleSid(i), i,
                         reveal_flip_delegated(State, tokens, clock, signer, pl, token_of,
                                               SettleSid(i), i, TRUE, seed),
                         Input(JackpotRollOf(seed), signer))

\* time passes until the pending bet can be revealed
DelegateAwaitReveal ==
    \E i \in DelegatePending :
        /\ LiveRun
        /\ clock.slot < sessions[SettleSid(i)].resolve_slot
        /\ Tick(<<60, 24>>)
        /\ UNCHANGED steps

\* time passes to the second before an authorization expires, then to the
\* second it expires at
DelegateAwaitExpiry ==
    \E i \in DelegatePending :
        LET pl == sessions[SettleSid(i)].player
        IN /\ LiveRun
           /\ tokens[pl] # <<>>
           /\ clock.unix_timestamp < tokens[pl][1].expires_at
           /\ Tick(<<1, IF clock.unix_timestamp < tokens[pl][1].expires_at - 1
                        THEN tokens[pl][1].expires_at - 1 - clock.unix_timestamp
                        ELSE 1>>)
           /\ UNCHANGED steps

NextDelegate ==
    \/ DelegateFundPool
    \/ DelegatePlaceBet
    \/ DelegateCreateSession
    \/ DelegateCloseSession
    \/ DelegateReveal
    \/ DelegateAwaitReveal
    \/ DelegateAwaitExpiry

SpecDelegate == InitDelegate /\ [][NextDelegate]_vars

\* ------------------------------------------------------------------------
\* SpecFees: the house-fee reserve.  The authority funds the pool with
\* 500 SOL; alice places coin-flip bets one at a time; each is revealed as a
\* win or a loss, or left until anyone claims it as forfeited.  Between the
\* bets the authority, or another operator, claims or reinvests nothing, one
\* unit, the whole house-fee reserve or one unit more.
\* ------------------------------------------------------------------------
MaxFeeBets == 2

FeeBets == {MIN_BET, 2 * MIN_BET}

FeePending == {i \in 1..MaxFeeBets : Pending(sessions[SettleSid(i)])}

FeeAmounts == {0, 1, pool.house_fees_earned, pool.house_fees_earned + 1}

\* the inputs of a fee instruction that `last` does not keep
FeeInput(amount, signer) == <<[amount |-> amount, signer |-> signer]>>

FeeFundPool ==
    /\ LiveRun
    /\ pool.total_balance = 0
    /\ SettleStep("fund_pool", NoSid, 0, fund_pool(State, "op", SettleFund), <<>>)

FeePlaceBet ==
    \E b \in FeeBets :
        LET i == pool.total_bets + 1
        IN /\ LiveRun
           /\ FeePending = {}
           /\ i <= MaxFeeBets
           /\ SettleStep("place_bet", SettleSid(i), 0,
                         place_bet(State, clock, "alice", SYSTEM, 0, Hash(i), b,
                                   <<0, 0, 0>>), <<>>)

FeeReveal ==
    \E i \in FeePending, b0 \in {0, 99} :
        /\ LiveRun
        /\ SettleStep("reveal", SettleSid(i), i,
                      reveal(State, clock, "alice", SettleSid(i), i, 0, TRUE,
                             MkSeed(b0, 0, 255)), <<>>)

FeeClaimForfeit ==
    \E i \in FeePending :
        /\ LiveRun
        /\ SettleStep("claim_forfeit", SettleSid(i), 0,
                      claim_forfeit(State, clock, SettleSid(i)), <<>>)

FeeClaimHouseFees ==
    \E signer \in Operators, amount \in FeeAmounts :
        /\ LiveRun
        /\ SettleStep("claim_house_fees", NoSid, 0,
                      claim_house_fees(State, signer, amount), FeeInput(amount, signer))

FeeReinvestHouseFees ==
    \E signer \in Operators, amount \in FeeAmounts :
        /\ LiveRun
        /\ SettleStep("reinvest_house_fees", NoSid, 0,
                      reinvest_house_fees(State, signer, amount), FeeInput(amount, signer))

\* time passes until the pending bet can be revealed, then until it is
\* forfeited and the grace period is over
FeeAwait ==
    \E i \in FeePending :
        LET s == sessions[SettleSid(i)]
        IN /\ LiveRun
           /\ clock.slot <= s.forfeit_slot + GRACE_SLOTS
           /\ Tick(IF clock.slot < s.resolve_slot THEN <<60, 24>>
                   ELSE <<s.forfeit_slot + GRACE_SLOTS + 1 - clock.slot, 480>>)
           /\ UNCHANGED steps

NextFees ==
    \/ FeeFundPool
    \/ FeePlaceBet
    \/ FeeReveal
    \/ FeeClaimForfeit
    \/ FeeClaimHouseFees
    \/ FeeReinvestHouseFees
    \/ FeeAwait

SpecFees == InitSettle /\ [][NextFees]_vars

\* ------------------------------------------------------------------------
\* SpecFrame: two pending sessions.  The authority funds the pool with
\* 20 SOL, alice authorizes a session key, alice and then bob bet the limit on
\* a coin flip.  Each session is revealed, revealed by the session key, claimed
\* as forfeited or refunded.  While both are pending the authority may pause
\* and unpause the pool and hand the authority over to another operator, and
\* then withdraws 20% of the pool every 48 hours; while one is pending it
\* claims or reinvests the house fees.  The clock moves to the bets' resolve
\* slot and by the two timelocks.
\* ------------------------------------------------------------------------
MaxFrameDays == 30

FrameLamports ==
    [a \in Wallets \cup {POOL} |->
        CASE a = POOL -> POOL_RENT
          [] a = "alice" -> 6100
          [] a = "bob" -> 6300
          [] a = "op" -> TWENTY_SOL
          [] OTHER -> 0]

InitFrame == InitWith(FrameLamports)

FrameSid(who) == <<who[1], Hash(who[2])>>

FramePending == {sid \in SessionIds : Pending(sessions[sid])}

\* both bets are placed and pending
FrameBothPending == Cardinality(FramePending) = 2

FrameFundPool ==
    /\ LiveRun
    /\ pool.total_balance = 0
    /\ pool.total_bets = 0
    /\ DrainStep("fund_pool", NoSid, 0, 0, fund_pool(State, "op", TWENTY_SOL))

FrameCreateSession ==
    /\ LiveRun
    /\ pool.total_balance > 0
    /\ pool.total_bets = 0
    /\ TokenRecord("create_session",
                   create_session(lamports, tokens, clock, "alice", "dkey", MAX_SESSION_SECS, 0))
    /\ UNCHANGED steps

\* alice bets first, then bob, both in the first slot
FramePlaceBet ==
    \E who \in Bettors :
        /\ LiveRun
        /\ tokens["alice"] # <<>>
        /\ pool.total_bets = (IF who[1] = "alice" THEN 0 ELSE 1)
        /\ DrainStep("place_bet", FrameSid(who), 0, 0,
                     place_bet(State, clock, who[1], SYSTEM, 0, Hash(who[2]),
                               get_max_bet(pool.total_balance, 0), <<0, 0, 0>>))

\* a reveal signed by the player wins
FrameReveal ==
    \E who \in Bettors :
        /\ LiveRun
        /\ FrameSid(who) \in FramePending
        /\ DrainStep("reveal", FrameSid(who), 0, who[2],
                     reveal(State, clock, who[1], FrameSid(who), who[2], 0, TRUE,
                            MkSeed(0, 0, 0)))

\* a reveal signed by the session key loses
FrameRevealDelegated ==
    \E who \in Bettors :
        /\ LiveRun
        /\ FrameSid(who) \in FramePending
        /\ DrainStep("reveal_delegated", FrameSid(who), 0, who[2],
                     reveal_delegated(State, tokens, clock, "dkey", FrameSid(who), who[2], 0,
                                      TRUE, MkSeed(99, 0, 0)))

FrameClaimForfeit ==
    \E sid \in UsedSids :
        /\ LiveRun
        /\ DrainStep("claim_forfeit", sid, 0, 0, claim_forfeit(State, clock, sid))

FrameEmergencyRefund ==
    \E sid \in FramePending :
        /\ LiveRun
        /\ DrainStep("emergency_refund", sid, 0, 0,
                     emergency_refund(State, clock, sid[1], sid))

FrameEmergencyPlayerRefund ==
    \E sid \in FramePending :
        /\ LiveRun
        /\ DrainStep("emergency_player_refund", sid, 0, 0,
                     emergency_player_refund(State, sid))

\* on the first day, before the first withdrawal is requested
FrameEarly ==
    /\ FrameBothPending
    /\ pool.withdrawal_request = <<>>
    /\ clock.unix_timestamp < InitClock.unix_timestamp + 86400

FrameSetPaused ==
    /\ LiveRun
    /\ FrameEarly
    /\ DrainStep("set_paused", NoSid, 0, 0, set_paused(State, pool.authority, ~pool.paused))

FrameRequestWithdrawal ==
    /\ LiveRun
    /\ FrameBothPending
    /\ ~pool.paused
    /\ pool.pending_authority = <<>>
    /\ DrainStep("request_withdrawal", NoSid, 0, 0,
                 request_withdrawal(State, clock, pool.authority, pool.total_balance \div 5))

FrameExecuteWithdrawal ==
    /\ LiveRun
    /\ FramePending # {}
    /\ DrainStep("execute_withdrawal", NoSid, 0, 0,
                 execute_withdrawal(State, clock, pool.authority))

FrameCancelWithdrawal ==
    /\ LiveRun
    /\ FrameBothPending
    /\ pool.withdrawal_request # <<>>
    /\ DrainStep("cancel_withdrawal", NoSid, 0, 0, cancel_withdrawal(State, pool.authority))

FrameClaimHouseFees ==
    /\ LiveRun
    /\ FramePending # {}
    /\ DrainStep("claim_house_fees", NoSid, 0, 0,
                 claim_house_fees(State, pool.authority, pool.house_fees_earned))

FrameReinvestHouseFees ==
    /\ LiveRun
    /\ FramePending # {}
    /\ DrainStep("reinvest_house_fees", NoSid, 0, 0,
                 reinvest_house_fees(State, pool.authority, pool.house_fees_earned))

FrameProposeAuthorityTransfer ==
    /\ LiveRun
    /\ FrameEarly
    /\ ~pool.paused
    /\ DrainStep("propose_authority_transfer", NoSid, 0, 0,
                 propose_authority_transfer(State, clock, pool.authority, "op2"))

FrameCancelAuthorityTransfer ==
    /\ LiveRun
    /\ FrameBothPending
    /\ pool.pending_authority # <<>>
    /\ DrainStep("cancel_authority_transfer", NoSid, 0, 0,
                 cancel_authority_transfer(State, pool.authority))

FrameExecuteAuthorityTransfer ==
    /\ LiveRun
    /\ FramePending # {}
    /\ DrainStep("execute_authority_transfer", NoSid, 0, 0,
                 execute_authority_transfer(State, clock, "op2"))

\* time passes until the pending bets can be revealed
FrameAwaitReveal ==
    \E sid \in FramePending :
        /\ LiveRun
        /\ FrameBothPending
        /\ clock.slot < sessions[sid].resolve_slot
        /\ Tick(<<60, 24>>)
        /\ UNCHANGED steps

\* 48 hours pass while both bets are pending and a withdrawal locked, 72 hours
\* while both are pending and an authority transfer locked
FrameAwaitTimelock ==
    \E j \in {<<432000, TIMELOCK_SECS>>, <<648000, AUTH_TIMELOCK>>} :
        /\ LiveRun
        /\ FrameBothPending
        /\ IF j[2] = TIMELOCK_SECS
           THEN /\ pool.withdrawal_request # <<>>
                /\ clock.unix_timestamp < pool.withdrawal_request[1].unlocks_at
           ELSE /\ pool.pending_authority # <<>>
                /\ clock.unix_timestamp < pool.authority_transfer_at
        /\ clock.unix_timestamp < InitClock.unix_timestamp + MaxFrameDays * 86400
        /\ Tick(j)
        /\ UNCHANGED steps

NextFrame ==
    \/ FrameFundPool
    \/ FrameCreateSession
    \/ FramePlaceBet
    \/ FrameReveal
    \/ FrameRevealDelegated
    \/ FrameClaimForfeit
    \/ FrameEmergencyRefund
    \/ FrameEmergencyPlayerRefund
    \/ FrameSetPaused
    \/ FrameRequestWithdrawal
    \/ FrameExecuteWithdrawal
    \/ FrameCancelWithdrawal
    \/ FrameClaimHouseFees
    \/ FrameReinvestHouseFees
    \/ FrameProposeAuthorityTransfer
    \/ FrameCancelAuthorityTransfer
    \/ FrameExecuteAuthorityTransfer
    \/ FrameAwaitReveal
    \/ FrameAwaitTimelock

SpecFrame == InitFrame /\ [][NextFrame]_vars

\* ------------------------------------------------------------------------
\* SpecWithhold: the player sees the seed before she reveals.  The authority
\* funds the pool with 500 SOL; alice places coin-flip bets one at a time.
\* Once the three slot hashes from resolve_slot on exist, the seed of the
\* pending bet is fixed (a win, a loss, or a loss whose jackpot draw is 0)
\* and res keeps it; a reveal settles with that seed.  Alice reveals, or
\* waits past forfeit_slot and calls emergency_refund; past the grace period
\* anyone claims the bet as forfeited.
\* ------------------------------------------------------------------------
MaxWithholdBets == 2

WithholdBets == {MIN_BET, MIN_BET + 49, JACKPOT_MIN_BET}

WithholdPending == {i \in 1..MaxWithholdBets : Pending(sessions[SettleSid(i)])}

\* the seeds Blake3 may give: roll 0, roll 99, roll 99 with the jackpot draw 0
WithholdSeeds == {MkSeed(0, 0, 100), MkSeed(99, 0, 100), MkSeed(99, 0, 0)}

\* the sessions whose seed is fixed
Observed == {res[k].sid : k \in 1..Len(res)}

\* the seed fixed for sid
SeedFor(sid) == (CHOOSE k \in 1..Len(res) : res[k].sid = sid)

WithholdFundPool ==
    /\ LiveRun
    /\ pool.total_balance = 0
    /\ SettleStep("fund_pool", NoSid, 0, fund_pool(State, "op", SettleFund), <<>>)

WithholdPlaceBet ==
    \E b \in WithholdBets :
        LET i == pool.total_bets + 1
        IN /\ LiveRun
           /\ WithholdPending = {}
           /\ i <= MaxWithholdBets
           /\ SettleStep("place_bet", SettleSid(i), 0,
                         place_bet(State, clock, "alice", SYSTEM, 0, Hash(i), b,
                                   <<0, 0, 0>>), <<>>)

\* the cluster produced the hashes of resolve_slot, resolve_slot + 1 and
\* resolve_slot + 2
WithholdObserve ==
    \E i \in WithholdPending, seed \in WithholdSeeds :
        /\ LiveRun
        /\ SettleSid(i) \notin Observed
        /\ clock.slot >= sessions[SettleSid(i)].resolve_slot + 2
        /\ res' = Append(res, [sid |-> SettleSid(i), seed |-> seed])
        /\ last' = [op |-> "slot_hashes", sid |-> SettleSid(i), game |-> 0, nonce |-> 0,
                    err |-> "Ok"]
        /\ UNCHANGED <<arg, clock, pool, lamports, sessions, tokens, resolved, placed, steps>>

WithholdReveal ==
    \E i \in WithholdPending :
        /\ LiveRun
        /\ SettleStep("reveal", SettleSid(i), i,
                      IF SettleSid(i) \in Observed
                      THEN reveal(State, clock, "alice", SettleSid(i), i, 0, TRUE,
                                  res[SeedFor(SettleSid(i))].seed)
                      ELSE reveal(State, clock, "alice", SettleSid(i), i, 0, FALSE, NoSeed),
                      <<>>)

WithholdEmergencyRefund ==
    \E i \in WithholdPending :
        /\ LiveRun
        /\ SettleStep("emergency_refund", SettleSid(i), 0,
                      emergency_refund(State, clock, "alice", SettleSid(i)), <<>>)

WithholdClaimForfeit ==
    \E i \in WithholdPending :
        /\ LiveRun
        /\ SettleStep("claim_forfeit", SettleSid(i), 0,
                      claim_forfeit(State, clock, SettleSid(i)), <<>>)

\* time passes to the slot the seed is fixed at, then to the slot after
\* forfeit_slot, then to the slot after the grace period
WithholdAwait ==
    \E i \in WithholdPending :
        LET s == sessions[SettleSid(i)]
            target == IF clock.slot < s.resolve_slot + 2 THEN s.resolve_slot + 2
                      ELSE IF clock.slot <= s.forfeit_slot THEN s.forfeit_slot + 1
                      ELSE s.forfeit_slot + GRACE_SLOTS + 1
        IN /\ LiveRun
           /\ clock.slot <= s.forfeit_slot + GRACE_SLOTS
           /\ clock.slot < s.resolve_slot + 2 \/ SettleSid(i) \in Observed
           /\ Tick(<<target - clock.slot, 24>>)
           /\ UNCHANGED steps

NextWithhold ==
    \/ WithholdFundPool
    \/ WithholdPlaceBet
    \/ WithholdObserve
    \/ WithholdReveal
    \/ WithholdEmergencyRefund
    \/ WithholdClaimForfeit
    \/ WithholdAwait

SpecWithhold == InitSettle /\ [][NextWithhold]_vars

\* ------------------------------------------------------------------------
\* SpecWindow: the slots at which each resolution path opens and closes.
\* The authority funds the pool with 500 SOL; alice places coin-flip bets of
\* 0.01, 0.5 and 10 SOL one at a time (resolve delays 10, 30 and 55 slots).
\* The clock moves from one boundary of the pending bet to the next: the
\* slot before resolve_slot, resolve_slot, the last slot of the SlotHashes
\* window and the slot after it, forfeit_slot and the slot after it, the last
\* slot of the grace period and the slot after it.  At every slot a reveal
\* (with and without the slot hashes), an emergency_refund signed by alice or
\* by bob and a claim_forfeit are tried.
\* ------------------------------------------------------------------------
MaxWindowBets == 2

WindowBets == {MIN_BET, SCALED_BET_MAX, 20 * SCALED_BET_MAX}

WindowPending == {i \in 1..MaxWindowBets : Pending(sessions[SettleSid(i)])}

\* the slots at which a path of session s opens or closes
WindowBoundaries(s) ==
    {s.resolve_slot - 1, s.resolve_slot,
     s.resolve_slot + SLOT_HASH_WINDOW - 1, s.resolve_slot + SLOT_HASH_WINDOW,
     s.forfeit_slot, s.forfeit_slot + 1,
     s.forfeit_slot + GRACE_SLOTS, s.forfeit_slot + GRACE_SLOTS + 1}

WindowFundPool ==
    /\ LiveRun
    /\ pool.total_balance = 0
    /\ SettleStep("fund_pool", NoSid, 0, fund_pool(State, "op", SettleFund), <<>>)

WindowPlaceBet ==
    \E b \in WindowBets :
        LET i == pool.total_bets + 1
        IN /\ LiveRun
           /\ WindowPending = {}
           /\ i <= MaxWindowBets
           /\ SettleStep("place_bet", SettleSid(i), 0,
                         place_bet(State, clock, "alice", SYSTEM, 0, Hash(i), b,
                                   <<0, 0, 0>>), <<>>)

WindowReveal ==
    \E i \in WindowPending, e \in {<<TRUE, MkSeed(0, 0, 100)>>, <<TRUE, MkSeed(99, 0, 100)>>,
                                  <<FALSE, NoSeed>>} :
        /\ LiveRun
        /\ SettleStep("reveal", SettleSid(i), i,
                      reveal(State, clock, "alice", SettleSid(i), i, 0, e[1], e[2]), <<>>)

WindowEmergencyRefund ==
    \E i \in WindowPending, signer \in Players :
        /\ LiveRun
        /\ SettleStep("emergency_refund", SettleSid(i), 0,
                      emergency_refund(State, clock, signer, SettleSid(i)), <<>>)

WindowClaimForfeit ==
    \E i \in WindowPending :
        /\ LiveRun
        /\ SettleStep("claim_forfeit", SettleSid(i), 0,
                      claim_forfeit(State, clock, SettleSid(i)), <<>>)

\* time passes to the next boundary of the pending bet
WindowTick ==
    \E i \in WindowPending :
        LET ahead == {b \in WindowBoundaries(sessions[SettleSid(i)]) : b > clock.slot}
        IN /\ LiveRun
           /\ ahead # {}
           /\ \E b \in ahead :
                 /\ \A c \in ahead : b <= c
                 /\ Tick(<<b - clock.slot, 1>>)
           /\ UNCHANGED steps

NextWindow ==
    \/ WindowFundPool
    \/ WindowPlaceBet
    \/ WindowReveal
    \/ WindowEmergencyRefund
    \/ WindowClaimForfeit
    \/ WindowTick

SpecWindow == InitSettle /\ [][NextWindow]_vars

\* ------------------------------------------------------------------------
\* SpecGrace: the resolution paths of the bets of a run on the pool.  The
\* bets of SpecRun are placed in the first slot and revealed, refunded or
\* claimed as forfeited in the order they were placed, while the clock moves
\* from one boundary of the bets' windows to the next (all bets share them).
\* ------------------------------------------------------------------------
GraceFundPool ==
    /\ LiveRun
    /\ pool.total_balance = 0
    /\ DrainStep("fund_pool", NoSid, 0, 0, fund_pool(State, "op", FIFTY_SOL))

\* the first pending bet is revealed as a win or as a loss
GraceReveal ==
    \E seed \in RunSeeds :
        /\ LiveRun
        /\ RunPending # {}
        /\ LET i == RunFirst
           IN DrainStep("reveal", RunSid(i), 2, RunNonce(i),
                        reveal(State, clock, RunPlayer(i), RunSid(i), RunNonce(i), 2, TRUE,
                               seed))

GraceClaimForfeit ==
    /\ LiveRun
    /\ RunPending # {}
    /\ DrainStep("claim_forfeit", RunSid(RunFirst), 0, 0,
                 claim_forfeit(State, clock, RunSid(RunFirst)))

GraceTick ==
    LET ahead == {b \in WindowBoundaries(sessions[RunSid(RunFirst)]) : b > clock.slot}
    IN /\ LiveRun
       /\ RunPending # {}
       /\ ahead # {}
       /\ \E b \in ahead :
             /\ \A c \in ahead : b <= c
             /\ Tick(<<b - clock.slot, 1>>)
       /\ UNCHANGED steps

NextGrace ==
    \/ GraceFundPool
    \/ RunPlaceBet
    \/ GraceReveal
    \/ RunEmergencyRefund
    \/ RunEmergencyPlayerRefund
    \/ GraceClaimForfeit
    \/ GraceTick

SpecGrace == InitRun /\ [][NextGrace]_vars

\* ------------------------------------------------------------------------
\* SpecForfeit: sessions nobody reveals.  The authority funds the pool with
\* 20 SOL; alice and then bob bet the limit on a coin flip in the first slot.
\* While a bet is pending the authority pauses and unpauses the pool, requests
\* a withdrawal of 20% of the pool, which it executes 48 hours later, and
\* proposes an authority transfer; a bet is revealed as a win, refunded, or
\* claimed as forfeited by anyone.  A rejected instruction leaves
\* the accounts as they were and the run goes on.  The clock is fair: while a
\* bet is pending it reaches the bet's resolve slot, the slot after
\* forfeit_slot and the slot after the grace period; and claim_forfeit is
\* fair for each session: somebody calls it if it stays enabled.
\* ------------------------------------------------------------------------
MaxForfeitDays == 2

ForfeitPending == {sid \in SessionIds : Pending(sessions[sid])}

\* an accepted instruction is recorded, a rejected one changes nothing
ForfeitStep(op, sid, game, nonce, r) ==
    IF r.err = "Ok" THEN DrainStep(op, sid, game, nonce, r) ELSE UNCHANGED vars

ForfeitFundPool ==
    /\ pool.total_balance = 0
    /\ pool.total_bets = 0
    /\ ForfeitStep("fund_pool", NoSid, 0, 0, fund_pool(State, "op", TWENTY_SOL))

ForfeitPlaceBet ==
    \E who \in Bettors :
        /\ pool.total_balance > 0
        /\ clock = InitClock
        /\ placed[FrameSid(who)] = 0
        /\ pool.total_bets = (IF who[1] = "alice" THEN 0 ELSE 1)
        /\ ForfeitStep("place_bet", FrameSid(who), 0, 0,
                     place_bet(State, clock, who[1], SYSTEM, 0, Hash(who[2]),
                               get_max_bet(pool.total_balance, 0), <<0, 0, 0>>))

ForfeitReveal ==
    \E sid \in ForfeitPending, who \in Bettors :
        /\ sid = FrameSid(who)
        /\ ForfeitStep("reveal", sid, 0, who[2],
                     reveal(State, clock, who[1], sid, who[2], 0, TRUE, MkSeed(0, 0, 0)))

ForfeitEmergencyRefund ==
    \E sid \in ForfeitPending :
        ForfeitStep("emergency_refund", sid, 0, 0, emergency_refund(State, clock, sid[1], sid))

\* claim_forfeit of one session, by any caller
ForfeitClaim(sid) ==
    /\ sid \in ForfeitPending
    /\ ForfeitStep("claim_forfeit", sid, 0, 0, claim_forfeit(State, clock, sid))

ForfeitClaimForfeit == \E who \in Bettors : ForfeitClaim(FrameSid(who))

ForfeitSetPaused ==
    /\ ForfeitPending # {}
    /\ ForfeitStep("set_paused", NoSid, 0, 0, set_paused(State, pool.authority, ~pool.paused))

ForfeitRequestWithdrawal ==
    /\ ForfeitPending # {}
    /\ pool.total_bets = 2
    /\ pool.withdrawal_request = <<>>
    /\ ForfeitStep("request_withdrawal", NoSid, 0, 0,
                 request_withdrawal(State, clock, pool.authority, pool.total_balance \div 5))

ForfeitExecuteWithdrawal ==
    /\ ForfeitPending # {}
    /\ pool.withdrawal_request # <<>>
    /\ ForfeitStep("execute_withdrawal", NoSid, 0, 0,
                   execute_withdrawal(State, clock, pool.authority))

ForfeitProposeAuthorityTransfer ==
    /\ ForfeitPending # {}
    /\ pool.paused
    /\ pool.pending_authority = <<>>
    /\ ForfeitStep("propose_authority_transfer", NoSid, 0, 0,
                 propose_authority_transfer(State, clock, pool.authority, "op2"))

\* the slots the clock stops at for session s
ForfeitStops(s) == {s.resolve_slot, s.forfeit_slot + 1, s.forfeit_slot + GRACE_SLOTS + 1}

\* time passes to the next stop of a pending bet
ForfeitTick ==
    LET ahead == UNION {{b \in ForfeitStops(sessions[sid]) : b > clock.slot} :
                            sid \in ForfeitPending}
    IN /\ ahead # {}
       /\ \E b \in ahead :
             /\ \A c \in ahead : b <= c
             /\ Tick(<<b - clock.slot, (2 * (b - clock.slot)) \div 5>>)
       /\ UNCHANGED steps

\* the 48 hours of a locked withdrawal pass
ForfeitAwaitTimelock ==
    /\ ForfeitPending # {}
    /\ pool.withdrawal_request # <<>>
    /\ clock.unix_timestamp < pool.withdrawal_request[1].unlocks_at
    /\ clock.unix_timestamp < InitClock.unix_timestamp + MaxForfeitDays * 86400
    /\ Tick(<<432000, TIMELOCK_SECS>>)
    /\ UNCHANGED steps

NextForfeit ==
    \/ ForfeitFundPool
    \/ ForfeitPlaceBet
    \/ ForfeitReveal
    \/ ForfeitEmergencyRefund
    \/ ForfeitClaimForfeit
    \/ ForfeitSetPaused
    \/ ForfeitRequestWithdrawal
    \/ ForfeitExecuteWithdrawal
    \/ ForfeitProposeAuthorityTransfer
    \/ ForfeitTick
    \/ ForfeitAwaitTimelock

SpecForfeit ==
    /\ InitFrame
    /\ [][NextForfeit]_vars
    /\ WF_vars(ForfeitTick)
    /\ \A who \in Bettors : WF_vars(ForfeitClaim(FrameSid(who)))

\* ------------------------------------------------------------------------
\* SpecSolvent: the solvency check of a settlement against the pool the bet
\* was placed on.  The authority funds the pool with 1 SOL or 400 SOL; alice
\* places up to MaxSolventBets bets, pending together or one after another:
\* a coin flip, a one-cell grid bet (243.2x), a dice bet under 2 (47.5x) or a
\* six-floor tower (60.8x), of 0.01 SOL, 0.02 SOL, 10 SOL, the game's maximum
\* bet or the bet whose payout is the pool's payout cap.  res keeps the
\* liquid pool recorded right after each accepted place_bet.  Each bet is
\* revealed as a win or a loss, with the jackpot draw 0 or far above the
\* threshold; arg keeps what the reveal found before it settled.
\* ------------------------------------------------------------------------
MaxSolventBets == 2

\* 1 SOL and 400 SOL
SolventFunds == {10000, 8 * FIFTY_SOL}

\* <<game_type, game_config, 100 * the game's payout multiplier>>
SolventTemplates ==
    {<<0, <<0, 0, 0>>, 190>>,
     <<1, <<8, 8, 0>>, 24320>>,
     <<2, <<2, 0, 0>>, 4750>>,
     <<3, <<6, 60, 0>>, 6080>>}

SolventBets(p, t) ==
    {MIN_BET, JACKPOT_MIN_BET, 100 * JACKPOT_MIN_POOL, get_max_bet(p, t[1]),
     (get_max_payout_cap(p) * 100) \div t[3]}

\* a winning seed of each game and a losing one, each with the jackpot draw 0
\* and with a draw far above every threshold
SolventSeeds ==
    {MkSeed(b[1], b[2], j) : b \in {<<0, 0>>, <<8, 8>>, <<1, 1>>, <<99, 0>>}, j \in {0, 100}}

SolventPending == {i \in 1..MaxSolventBets : Pending(sessions[SettleSid(i)])}

\* the liquid pool recorded right after the place_bet of sid
PlacedLiquid(sid) == res[CHOOSE k \in 1..Len(res) : res[k].sid = sid].liquid

SolventStep(op, sid, nonce, r, a, rs) ==
    LET post == Host(State, r)
        ok == r.err = "Ok"
    IN /\ pool' = post.pool
       /\ lamports' = post.lamports
       /\ sessions' = post.sessions
       /\ last' = [op |-> op, sid |-> sid, game |-> 0,
                   nonce |-> IF ok THEN nonce ELSE 0, err |-> r.err]
       /\ resolved' = IF ok /\ op \in ResolutionOps
                      THEN [resolved EXCEPT ![sid] = @ + 1] ELSE resolved
       /\ placed' = IF ok /\ op = "place_bet"
                    THEN [placed EXCEPT ![sid] = @ + 1] ELSE placed
       /\ arg' = a
       /\ res' = IF ok THEN rs ELSE res
       /\ UNCHANGED <<clock, tokens, steps>>

SolventFundPool ==
    \E a \in SolventFunds :
        /\ LiveRun
        /\ pool.total_balance = 0
        /\ SolventStep("fund_pool", NoSid, 0, fund_pool(State, "op", a), <<>>, res)

SolventPlaceBet ==
    \E t \in SolventTemplates :
      \E b \in SolventBets(pool.total_balance, t) :
        LET i == pool.total_bets + 1
            r == place_bet(State, clock, "alice", SYSTEM, t[1], Hash(i), b, t[2])
        IN /\ LiveRun
           /\ pool.total_balance > 0
           /\ i <= MaxSolventBets
           /\ SolventStep("place_bet", SettleSid(i), 0, r, <<>>,
                          Append(res, [sid |-> SettleSid(i),
                                       liquid |-> r.pool.total_balance]))

SolventReveal ==
    \E i \in SolventPending, seed \in SolventSeeds :
        LET sid == SettleSid(i)
            s == sessions[sid]
        IN /\ LiveRun
           /\ clock.slot >= s.resolve_slot
           /\ SolventStep("reveal", sid, i,
                          reveal(State, clock, "alice", sid, i, s.game_type, TRUE, seed),
                          [liquid |-> pool.total_balance,
                           placed_liquid |-> PlacedLiquid(sid),
                           won |-> Resolve(s.game_type, seed, s).won,
                           prize |-> JackpotPrize(s.bet_lamports, pool.jackpot_balance, seed)],
                          res)

\* time passes until a pending bet can be revealed
SolventAwaitReveal ==
    \E i \in SolventPending :
        /\ LiveRun
        /\ clock.slot < sessions[SettleSid(i)].resolve_slot
        /\ Tick(<<60, 24>>)
        /\ UNCHANGED steps

NextSolvent ==
    \/ SolventFundPool
    \/ SolventPlaceBet
    \/ SolventReveal
    \/ SolventAwaitReveal

SpecSolvent == InitSettle /\ [][NextSolvent]_vars

\* ------------------------------------------------------------------------
\* SpecBreaker: bets on a small pool.  The authority funds the pool once or
\* twice with amounts between one unit and 1 SOL; alice places bets of every
\* game, one at a time: one unit below the minimum, the minimum, the game's
\* maximum bet and one unit more; a bet is revealed as a win or as a loss,
\* which brings the pool below and above the levels it was funded to.
\* ------------------------------------------------------------------------
MaxBreakerFunds == 2
MaxBreakerBets == 2
\* the largest bet tried on a pool below 1 SOL: twice the minimum bet
MaxBreakerStake == 200

\* one unit, around the circuit breaker MIN_POOL, 0.5 SOL and around 1 SOL
BreakerFunds == {1, MIN_POOL - 1, MIN_POOL, 5000, 9999, 10000, 10001}

BreakerPending == {i \in 1..MaxBreakerBets : Pending(sessions[SettleSid(i)])}

BreakerFundPool ==
    \E a \in BreakerFunds :
        /\ LiveRun
        /\ pool.total_bets = 0
        /\ steps < MaxBreakerFunds
        /\ steps' = steps + 1
        /\ Record("fund_pool", NoSid, 0, 0, fund_pool(State, "op", a))

BreakerPlaceBet ==
    \E t \in RiskTemplates :
      \E b \in {MIN_BET - 1, MIN_BET, get_max_bet(pool.total_balance, t[1]),
                get_max_bet(pool.total_balance, t[1]) + 1} :
        LET i == pool.total_bets + 1
        IN /\ LiveRun
           /\ pool.total_balance > 0
           /\ BreakerPending = {}
           /\ i <= MaxBreakerBets
           /\ DrainStep("place_bet", SettleSid(i), t[1], 0,
                        place_bet(State, clock, "alice", SYSTEM, t[1], Hash(i), b, t[2]))

BreakerReveal ==
    \E i \in BreakerPending, seed \in SolventSeeds :
        LET s == sessions[SettleSid(i)]
        IN /\ LiveRun
           /\ clock.slot >= s.resolve_slot
           /\ DrainStep("reveal", SettleSid(i), s.game_type, i,
                        reveal(State, clock, "alice", SettleSid(i), i, s.game_type, TRUE,
                               seed))

\* time passes until the pending bet can be revealed
BreakerAwaitReveal ==
    \E i \in BreakerPending :
        /\ LiveRun
        /\ clock.slot < sessions[SettleSid(i)].resolve_slot
        /\ Tick(<<60, 24>>)
        /\ UNCHANGED steps

NextBreaker ==
    \/ BreakerFundPool
    \/ BreakerPlaceBet
    \/ BreakerReveal
    \/ BreakerAwaitReveal

SpecBreaker == InitSettle /\ [][NextBreaker]_vars

\* ------------------------------------------------------------------------
\* Properties
\* ------------------------------------------------------------------------
\* the pool's funds above its rent reserve, and the two reserved compartments
Physical == lamports[POOL] - POOL_RENT
Reserved == pool.house_fees_earned + pool.jackpot_balance

\* C1 (SpecDrain): in every reachable state the pool's physical funds minus the
\* rent reserve are at least house_fees_earned + jackpot_balance.
C1_Solvency == Physical >= Reserved

\* a refund was paid and booked, and left the pool solvent by less than the bet
C1_Witness ==
    /\ last.op = "emergency_player_refund"
    /\ last.err = "Ok"
    /\ pool.house_fees_earned > 0
    /\ Physical - Reserved < sessions[last.sid].bet_lamports

\* C2 (Spec): after every successful operation, the rent returned by a closed
\* session included, total_balance equals the pool's physical funds minus the
\* rent reserve minus house_fees_earned + jackpot_balance.
C2_BalanceMatchesFunds ==
    last.err = "Ok" => pool.total_balance = Physical - Reserved

\* C3 (Spec): a session leaves Pending at most once.  A resolution (reveal,
\* delegated reveal, claim_forfeit, emergency_refund, emergency_player_refund)
\* succeeds only on a Pending session and leaves it not Pending, no bet is
\* resolved more often than it was placed, and a resolution naming a session
\* that is not Pending fails and moves no funds.
C3_ResolvedOnce ==
    [][/\ \A sid \in SessionIds :
             resolved'[sid] # resolved[sid] =>
                 /\ Pending(sessions[sid])
                 /\ ~Pending(sessions'[sid])
                 /\ resolved'[sid] <= placed'[sid]
       /\ (last'.op \in ResolutionOps /\ ~Pending(sessions[last'.sid])) =>
              /\ last'.err # "Ok"
              /\ lamports' = lamports
              /\ pool' = pool
              /\ sessions' = sessions]_vars

\* a resolution of a session that was already resolved was rejected
C3_Witness ==
    /\ last.op \in ResolutionOps
    /\ last.err # "Ok"
    /\ resolved[last.sid] = 1
    /\ ~Pending(sessions[last.sid])

\* C4 (SpecPure): for every config place_bet accepts and every bet, the
\* resolver pays get_worst_payout(bet, game, config) on a winning seed and 0 on
\* a losing one.
C4_WorstIsWinPayout ==
    \A i \in 1..Len(res) :
        res[i].accepted =>
            res[i].out.payout = IF res[i].out.won THEN res[i].worst ELSE 0

\* a six-floor tower was climbed and paid its worst-case payout
C4_Witness ==
    /\ res # <<>>
    /\ arg[1].game = 3
    /\ arg[1].config[1] = 6
    /\ res[1].accepted
    /\ res[1].out.won
    /\ res[1].out.payout > 0

C6_NoAccountingBroken == last.err # "AccountingBroken"

\* C7 (Spec): a reveal, direct or delegated, succeeds only if at the call the
\* session is Pending, its game type is the endpoint's, resolve_slot <= slot
\* <= forfeit_slot, slot - resolve_slot < 512, and the hash of the nonce is
\* the stored commitment.
C7_RevealRequires ==
    [][(last'.op \in RevealOps /\ last'.err = "Ok") =>
           LET s == sessions[last'.sid]
           IN /\ Pending(s)
              /\ s.game_type = last'.game
              /\ clock.slot >= s.resolve_slot
              /\ clock.slot <= s.forfeit_slot
              /\ clock.slot - s.resolve_slot < 512
              /\ Hash(last'.nonce) = s.commitment]_vars

\* a delegated reveal settled a session
C7_Witness ==
    /\ last.op = "reveal_delegated"
    /\ last.err = "Ok"
    /\ resolved[last.sid] = 1

\* C8 (SpecRisk): every accepted bet is at most get_max_bet of the liquid
\* pool: 1% of it for every game below 5 SOL, else 3% for CoinFlip and Dice
\* and 2% for Grid and Tower.
C8_BetWithinLimit ==
    [][(last'.op = "place_bet" /\ last'.err = "Ok") =>
           LET s == sessions'[last'.sid]
               p == pool.total_balance
               pct == IF p < 50000 THEN 1
                      ELSE IF s.game_type \in {0, 2} THEN 3 ELSE 2
           IN /\ s.bet_lamports <= (p * pct) \div 100
              /\ s.bet_lamports <= get_max_bet(p, s.game_type)]_vars

\* a tower bet of exactly 2% of a pool of at least 5 SOL was accepted
C8_Witness ==
    /\ last.op = "place_bet"
    /\ last.err = "Ok"
    /\ LET s == sessions[last.sid]
           p == pool.total_balance - s.bet_lamports
       IN /\ p >= 50000
          /\ s.game_type = 3
          /\ s.bet_lamports = (p * 2) \div 100

\* C9 (SpecRisk): every accepted bet has a worst-case payout of at most
\* get_max_payout_cap of the liquid pool, which is 3%, 5%, 8% or 10% of it
\* (below 5, below 20, below 50, from 50 SOL) and at most 25 SOL, and the
\* liquid pool plus the bet covers it; so it is at most 10% of the liquid pool.
C9_PayoutWithinCap ==
    [][(last'.op = "place_bet" /\ last'.err = "Ok") =>
           LET s == sessions'[last'.sid]
               p == pool.total_balance
               worst == get_worst_payout(s.bet_lamports, s.game_type,
                                         <<s.target_x, s.target_y, s.target_radius>>)
               pct == IF p < 50000 THEN 3 ELSE IF p < 200000 THEN 5
                      ELSE IF p < 500000 THEN 8 ELSE 10
           IN /\ worst <= get_max_payout_cap(p)
              /\ worst <= (p * pct) \div 100
              /\ worst <= 250000
              /\ p + s.bet_lamports >= worst
              /\ worst * 10 <= p]_vars

\* a bet was accepted whose worst-case payout is within 0.1 SOL of 25 SOL
C9_Witness ==
    /\ last.op = "place_bet"
    /\ last.err = "Ok"
    /\ LET s == sessions[last.sid]
       IN get_worst_payout(s.bet_lamports, s.game_type,
                           <<s.target_x, s.target_y, s.target_radius>>) >= 249000

\* C10 (Spec): a settlement books floor(1%) of the bet to the jackpot; the
\* house cut and the referrer cut add up to floor(2%) + floor(2%) of the bet;
\* an eligible referrer gets floor(2%) and the house floor(2%); without a
\* referrer (the player or the system address) the house gets both.
C10_FeesOnBet ==
    [][(last'.op \in RevealOps /\ last'.err = "Ok") =>
           LET s == sessions[last'.sid]
               bet == s.bet_lamports
               two == (bet * 2) \div 100
               prize == pool'.total_jackpot_won - pool.total_jackpot_won
               jackpot_cut == pool'.jackpot_balance - (pool.jackpot_balance - prize)
               house_cut == pool'.house_fees_earned - pool.house_fees_earned
               no_ref == s.referrer = s.player \/ s.referrer = SYSTEM
               ref_cut == IF no_ref THEN 0
                          ELSE lamports'[s.referrer] - lamports[s.referrer]
               eligible == /\ ~no_ref
                           /\ lamports[s.referrer] >= REF_MIN_BALANCE
                           /\ two >= REF_MIN_COMMISSION
           IN /\ jackpot_cut = bet \div 100
              /\ house_cut + ref_cut = two + two
              /\ eligible => (house_cut = two /\ ref_cut = two)
              /\ no_ref => (house_cut = two + two /\ ref_cut = 0)]_vars

\* a settlement paid a referrer
C10_Witness ==
    /\ last.op \in RevealOps
    /\ last.err = "Ok"
    /\ lamports["ref_rich"] > InitLamports["ref_rich"]

\* C11 (SpecSettle): a settlement pays the referrer only if the referrer is
\* neither the player nor the system address, holds at least 0.05 SOL before
\* the settlement and the 2% commission is at least 0.001 SOL, and then it pays
\* exactly the commission; a referrer holding less than 0.05 SOL gets nothing
\* and the house reserve takes its 2% on top of its own.
C11_ReferrerPaidOnlyIfEligible ==
    [][(last'.op \in RevealOps /\ last'.err = "Ok") =>
           LET s == sessions[last'.sid]
               two == (s.bet_lamports * 2) \div 100
               house_cut == pool'.house_fees_earned - pool.house_fees_earned
           IN \A r \in Referrers :
                  LET paid == lamports'[r] - lamports[r]
                  IN /\ paid \in {0, two}
                     /\ paid > 0 => /\ s.referrer = r
                                    /\ r # s.player /\ r # SYSTEM
                                    /\ lamports[r] >= REF_MIN_BALANCE
                                    /\ two >= REF_MIN_COMMISSION
                     /\ (s.referrer = r /\ lamports[r] < REF_MIN_BALANCE)
                            => (paid = 0 /\ house_cut = two + two)]_vars

\* a settlement left out a referrer holding less than 0.05 SOL although the
\* commission was at least 0.001 SOL
C11_Witness ==
    /\ last.op \in RevealOps
    /\ last.err = "Ok"
    /\ placed[last.sid] = 1
    /\ lamports["ref_poor"] = SettleLamports["ref_poor"]
    /\ pool.total_bets = 1
    /\ pool.total_wagered = 60 * REF_MIN_COMMISSION
    /\ (pool.total_wagered * 2) \div 100 >= REF_MIN_COMMISSION
    /\ pool.house_fees_earned = 2 * ((pool.total_wagered * 2) \div 100)

\* C12 (SpecSettle): a settlement of a bet below 0.02 SOL, or one that finds
\* the jackpot reserve below 0.1 SOL, pays no jackpot prize whatever the draw:
\* the player gets the session rent and the win payout only, total_jackpot_won
\* stays and the reserve grows by the 1% cut.
C12_NoJackpotBelowFloors ==
    [][(/\ last'.op \in RevealOps /\ last'.err = "Ok"
        /\ \/ pool.jackpot_balance < JACKPOT_MIN_POOL
           \/ sessions[last'.sid].bet_lamports < JACKPOT_MIN_BET) =>
           LET s == sessions[last'.sid]
               gain == lamports'[s.player] - lamports[s.player] - SESSION_RENT
           IN /\ gain \in {0, (s.bet_lamports * 190) \div 100}
              /\ pool'.total_jackpot_won = pool.total_jackpot_won
              /\ pool'.jackpot_balance = pool.jackpot_balance + s.bet_lamports \div 100]_vars

\* a 0.02 SOL bet settled with the draw 0 while the reserve held 0.0999 SOL,
\* and no prize was paid
C12_Witness ==
    /\ last.op \in RevealOps
    /\ last.err = "Ok"
    /\ arg # <<>>
    /\ arg[1].draw = 0
    /\ pool.total_wagered = 100 * (JACKPOT_MIN_POOL - 1) + JACKPOT_MIN_BET
    /\ pool.jackpot_balance = JACKPOT_MIN_POOL - 1 + JACKPOT_MIN_BET \div 100
    /\ pool.total_jackpot_won = 0

\* C13 (SpecSettle): the jackpot triggers when the bet is at least 0.02 SOL,
\* the reserve at least 0.1 SOL and the draw below the bet's threshold.  Then the
\* player is paid floor(90% of the reserve before the settlement) on top of the
\* win payout, if any, and the reserve becomes old reserve - prize + floor(1% of
\* the bet); otherwise no prize is paid and the reserve grows by floor(1% of the
\* bet).
C13_JackpotPrizeAndReserve ==
    [][(last'.op \in RevealOps /\ last'.err = "Ok") =>
           LET s == sessions[last'.sid]
               bet == s.bet_lamports
               reserve == pool.jackpot_balance
               triggered == /\ bet >= JACKPOT_MIN_BET
                            /\ reserve >= JACKPOT_MIN_POOL
                            /\ arg'[1].draw < JackpotThreshold(bet)
               prize == IF triggered THEN (reserve * 90) \div 100 ELSE 0
               won == pool'.total_wins = pool.total_wins + 1
               gain == lamports'[s.player] - lamports[s.player] - SESSION_RENT
           IN /\ gain = (IF won THEN (bet * 190) \div 100 ELSE 0) + prize
              /\ pool'.jackpot_balance = reserve - prize + bet \div 100
              /\ pool'.total_jackpot_won = pool.total_jackpot_won + prize]_vars

\* a lost 0.02 SOL bet won the jackpot of a 0.1 SOL reserve: 0.09 SOL paid,
\* 0.01 SOL and the cut of the bet left in the reserve
C13_Witness ==
    /\ last.op \in RevealOps
    /\ last.err = "Ok"
    /\ arg # <<>>
    /\ arg[1].draw = JackpotThreshold(JACKPOT_MIN_BET) - 1
    /\ pool.total_wins = 0
    /\ pool.total_wagered = 100 * JACKPOT_MIN_POOL + JACKPOT_MIN_BET
    /\ pool.total_jackpot_won = (JACKPOT_MIN_POOL * 90) \div 100
    /\ pool.jackpot_balance = JACKPOT_MIN_POOL \div 10 + JACKPOT_MIN_BET \div 100

\* C14 (SpecThreshold): the jackpot threshold of a bet is the smaller of
\* floor(bet * 43 / 10000), the bet in lamports, and floor((2^32 - 1) / 200);
\* it does not decrease when the bet grows and is never above 1/200 of the
\* 2^32 values of the draw.  (2^32 - 1) div 8 = 2^29 - 1, so that
\* floor((2^32 - 1) / 200) = (2^29 - 1) div 25.
C14_ThresholdCapped ==
    res # <<>> =>
        LET bet == arg[1]
            draw_range_200th == 536870911 \div 25
        IN /\ res[1].threshold = Min(MulDiv(bet, 100000 * 43, 10000), draw_range_200th)
           /\ res[1].threshold <= res[1].next
           /\ res[1].threshold <= draw_range_200th

\* a bet above the last one with an uncapped threshold: its threshold is the cap
C14_Witness ==
    /\ res # <<>>
    /\ arg[1] = LastUncappedBet + 1
    /\ res[1].threshold = JACKPOT_ROLL_CAP
    /\ 43 * 10 * arg[1] > JACKPOT_ROLL_CAP
    /\ res[1].next = res[1].threshold

\* C15 (SpecThin): a settlement succeeds only if the liquid pool recorded before
\* it covers what leaves the pool (the win payout if any, the referrer cut and
\* the jackpot prize) plus the jackpot cut added to the reserve.
C15_SettlementCovered ==
    [][(last'.op \in RevealOps /\ last'.err = "Ok") =>
           LET outflow == lamports[POOL] - lamports'[POOL]
               jackpot_cut == sessions[last'.sid].bet_lamports \div 100
           IN pool.total_balance >= outflow + jackpot_cut]_vars

\* C16 (Spec): a successful claim_forfeit finds the session Pending and the
\* slot above forfeit_slot + 200; it changes no wallet's balance (nothing is paid
\* to the player or to anybody else), leaves house_fees_earned and
\* jackpot_balance as they were, takes nothing out of the pool account and does
\* not lower the recorded liquid pool, and the session is closed.
C16_ForfeitKeepsBetInPool ==
    [][(last'.op = "claim_forfeit" /\ last'.err = "Ok") =>
           LET s == sessions[last'.sid]
           IN /\ Pending(s)
              /\ clock.slot > s.forfeit_slot + 200
              /\ \A w \in Wallets : lamports'[w] = lamports[w]
              /\ pool'.house_fees_earned = pool.house_fees_earned
              /\ pool'.jackpot_balance = pool.jackpot_balance
              /\ lamports'[POOL] >= lamports[POOL]
              /\ pool'.total_balance >= pool.total_balance
              /\ ~Pending(sessions'[last'.sid])]_vars

\* a bet was forfeited
C16_Witness ==
    /\ last.op = "claim_forfeit"
    /\ last.err = "Ok"
    /\ resolved[last.sid] = 1
    /\ ~sessions[last.sid].open
    /\ clock.slot > sessions[last.sid].forfeit_slot + GRACE_SLOTS

\* C17 (SpecThin): a successful emergency_refund is signed by the session's
\* player, finds the session Pending, the slot above forfeit_slot and the
\* recorded liquid pool at least the refund; it moves floor(bet * 90 / 100)
\* from the pool to the player, adds bet - refund to house_fees_earned and
\* closes the session.
C17_EmergencyRefund ==
    [][(last'.op = "emergency_refund" /\ last'.err = "Ok") =>
           LET s == sessions[last'.sid]
               refund == (s.bet_lamports * 90) \div 100
               penalty == pool'.house_fees_earned - pool.house_fees_earned
           IN /\ arg'[1].signer = s.player
              /\ Pending(s)
              /\ clock.slot > s.forfeit_slot
              /\ pool.total_balance >= refund
              /\ lamports'[s.player] = lamports[s.player] + refund + SESSION_RENT
              /\ lamports'[POOL] = lamports[POOL] - refund
              /\ refund + penalty = s.bet_lamports
              /\ pool'.jackpot_balance = pool.jackpot_balance
              /\ sessions'[last'.sid].game_state = 2
              /\ ~Pending(sessions'[last'.sid])]_vars

\* alice took the emergency refund of the 0.02 SOL bet one slot after its
\* forfeit_slot
C17_Witness ==
    /\ last.op = "emergency_refund"
    /\ last.err = "Ok"
    /\ arg # <<>>
    /\ arg[1].signer = "alice"
    /\ last.sid = SettleSid(3)
    /\ clock.slot = sessions[last.sid].forfeit_slot + 1
    /\ sessions[last.sid].game_state = 2

\* C18 (SpecThin): a successful emergency_player_refund finds the session
\* Pending and the recorded liquid pool strictly below the session's worst-case
\* payout; it moves floor(bet * 96 / 100) from the pool to the session's player
\* and to no other wallet, adds the rest of the bet to house_fees_earned and
\* closes the session.
C18_EmergencyPlayerRefund ==
    [][(last'.op = "emergency_player_refund" /\ last'.err = "Ok") =>
           LET s == sessions[last'.sid]
               refund == (s.bet_lamports * 96) \div 100
               worst == get_worst_payout(s.bet_lamports, s.game_type,
                                         <<s.target_x, s.target_y, s.target_radius>>)
           IN /\ Pending(s)
              /\ pool.total_balance < worst
              /\ lamports'[s.player] = lamports[s.player] + refund + SESSION_RENT
              /\ \A w \in Wallets \ {s.player} : lamports'[w] = lamports[w]
              /\ lamports'[POOL] = lamports[POOL] - refund
              /\ pool'.house_fees_earned =
                     pool.house_fees_earned + (s.bet_lamports - refund)
              /\ pool'.jackpot_balance = pool.jackpot_balance
              /\ sessions'[last'.sid].game_state = 2
              /\ ~Pending(sessions'[last'.sid])]_vars

\* the 10 SOL bet was refunded when the liquid pool was one unit below its
\* worst-case payout of 19 SOL
C18_Witness ==
    /\ last.op = "emergency_player_refund"
    /\ last.err = "Ok"
    /\ last.sid = SettleSid(2)
    /\ sessions[last.sid].game_state = 2
    /\ pool.total_balance = ThinWorst - 1 - ThinBets[2]

\* C19: withdrawal timelock.  The pending request is written only by an
\* accepted request_withdrawal, with the time of the call, and no other step
\* changes it except to clear it.  Every accepted execute_withdrawal finds a
\* pending request made at least 48 hours (172800 s) earlier and a recorded
\* liquid pool of at least its amount, moves exactly that amount from the pool
\* account to the authority and leaves no pending request.  An accepted
\* cancel_withdrawal clears the request and moves nothing, and an
\* execute_withdrawal that finds no request (never made, executed or cancelled)
\* is rejected and moves nothing.
C19_WithdrawalTimelock ==
    [][LET req == pool.withdrawal_request
           requested == last'.op = "request_withdrawal" /\ last'.err = "Ok"
           executed == last'.op = "execute_withdrawal" /\ last'.err = "Ok"
           cancelled == last'.op = "cancel_withdrawal" /\ last'.err = "Ok"
       IN /\ requested => /\ pool'.withdrawal_request # <<>>
                           /\ pool'.withdrawal_request[1].requested_at
                                  = clock.unix_timestamp
                           /\ clock' = clock
          /\ ~requested => pool'.withdrawal_request \in {req, <<>>}
          /\ executed => /\ req # <<>>
                          /\ clock.unix_timestamp >= req[1].requested_at + 172800
                          /\ clock' = clock
                          /\ pool.total_balance >= req[1].amount
                          /\ lamports'[pool.authority]
                                 = lamports[pool.authority] + req[1].amount
                          /\ lamports'[POOL] = lamports[POOL] - req[1].amount
                          /\ pool'.withdrawal_request = <<>>
          /\ cancelled => /\ pool'.withdrawal_request = <<>>
                           /\ lamports' = lamports
          /\ (last'.op = "execute_withdrawal" /\ req = <<>>)
                => /\ last'.err = "NoWithdrawalRequest"
                   /\ lamports' = lamports
                   /\ pool' = pool
      ]_vars

\* an executed withdrawal of a request made after an earlier one was cancelled
C19_Witness ==
    /\ last.op = "execute_withdrawal"
    /\ last.err = "Ok"
    /\ steps = MaxThinCancels
    /\ pool.withdrawal_request = <<>>
    /\ lamports[pool.authority] > SettleLamports[pool.authority]
    /\ clock.unix_timestamp >= InitClock.unix_timestamp + TIMELOCK_SECS

\* C20: at most one withdrawal request is pending.  A request_withdrawal made
\* while a request is pending is rejected with PendingWithdrawal and changes
\* nothing; an accepted one finds no pending request and records an amount of
\* at most 20% of the liquid pool recorded at that moment; the amount of a
\* request does not change while it is pending.
C20_OneRequestWithinCap ==
    [][/\ Len(pool'.withdrawal_request) <= 1
       /\ (last'.op = "request_withdrawal" /\ pool.withdrawal_request # <<>>)
             => /\ last'.err = "PendingWithdrawal"
                /\ pool' = pool
                /\ lamports' = lamports
       /\ (last'.op = "request_withdrawal" /\ last'.err = "Ok")
             => /\ pool.withdrawal_request = <<>>
                /\ Len(pool'.withdrawal_request) = 1
                /\ 5 * pool'.withdrawal_request[1].amount <= pool.total_balance
                /\ pool'.total_balance = pool.total_balance
       /\ (pool.withdrawal_request # <<>> /\ pool'.withdrawal_request # <<>>)
             => pool'.withdrawal_request[1].amount
                    = pool.withdrawal_request[1].amount
      ]_vars

\* a request of exactly a fifth of the liquid pool is pending
C20_Witness ==
    /\ last.op = "request_withdrawal"
    /\ last.err = "Ok"
    /\ Len(pool.withdrawal_request) = 1
    /\ pool.withdrawal_request[1].amount > 0
    /\ pool.withdrawal_request[1].amount = pool.total_balance \div 5
    /\ pool.total_balance % 5 # 0

\* C21: authority transfer.  pool.authority changes only in an accepted
\* execute_authority_transfer, and then to the identity proposed by the
\* proposal in force, which signed the call and is not the old authority, at
\* a time at least 72 hours (259200 s) after that proposal was made.  A
\* proposal is made or replaced only by an accepted propose_authority_transfer
\* signed by the authority, and lapses only by a cancel signed by the authority
\* or by its execution.  An execute_authority_transfer signed by anyone but
\* the proposed identity, or made before the 72 hours are over, or made when
\* no proposal is in force (none made, cancelled or executed) is rejected.
C21_AuthorityTransfer ==
    [][LET pending == pool.pending_authority
           signer == arg'[1].signer
           proposed == last'.op = "propose_authority_transfer" /\ last'.err = "Ok"
           cancelled == last'.op = "cancel_authority_transfer" /\ last'.err = "Ok"
           executing == last'.op = "execute_authority_transfer"
           executed == executing /\ last'.err = "Ok"
       IN /\ pool'.authority # pool.authority => executed
          /\ proposed => /\ signer = pool.authority
                         /\ res' = <<clock.unix_timestamp>>
                         /\ pool'.pending_authority # <<>>
                         /\ pool'.pending_authority[1] \notin {pool.authority, SYSTEM}
          /\ cancelled => /\ signer = pool.authority
                          /\ pending # <<>>
                          /\ pool'.pending_authority = <<>>
                          /\ res' = <<>>
          /\ ~(proposed \/ cancelled \/ executed)
                => /\ pool'.pending_authority = pending
                   /\ res' = res
          /\ (res = <<>>) <=> (pending = <<>>)
          /\ executed => /\ pending # <<>>
                         /\ pool'.authority = pending[1]
                         /\ signer = pending[1]
                         /\ signer # pool.authority
                         /\ clock.unix_timestamp >= res[1] + 259200
                         /\ pool'.pending_authority = <<>>
          /\ (executing /\ (pending = <<>> \/ signer # pending[1]))
                => /\ last'.err \in {"NoWithdrawalRequest", "InvalidReferrer"}
                   /\ pool' = pool
          /\ (executing /\ pending # <<>> /\ clock.unix_timestamp < res[1] + 259200)
                => /\ last'.err \in {"InvalidReferrer", "TimelockActive"}
                   /\ pool' = pool
      ]_vars

\* the player's wallet, proposed one second before an earlier proposal's
\* unlock time, takes the authority over exactly 72 hours later
C21_Witness ==
    /\ last.op = "execute_authority_transfer"
    /\ last.err = "Ok"
    /\ pool.authority = "alice"
    /\ arg = Input(-1, "alice")
    /\ clock.unix_timestamp = InitClock.unix_timestamp + 2 * AUTH_TIMELOCK - 1

\* the bytes k..7 of a seed as a little-endian unsigned integer, modulo 100
RECURSIVE LeBytesMod100(_, _)
LeBytesMod100(seed, k) ==
    IF k = 8 THEN 0 ELSE (seed[k + 1] + 256 * LeBytesMod100(seed, k + 1)) % 100

\* C22 (SpecResolve): the coin flip's roll is the first 8 seed bytes, read as a
\* little-endian unsigned integer, modulo 100; the bet wins iff roll < 50; the
\* gross payout is floor(bet * 190 / 100) on a win and 0 on a loss.
C22_FlipResolver ==
    (res # <<>> /\ arg[1].game = 0) =>
        LET roll == LeBytesMod100(arg[1].seed, 0)
        IN /\ res[1].roll = roll
           /\ res[1].won <=> roll < 50
           /\ res[1].payout = IF roll < 50 THEN (arg[1].bet * 190) \div 100 ELSE 0

\* 0.02 SOL wins 0.038 SOL on roll 49, the seed's higher bytes being non-zero
C22_Witness ==
    /\ res # <<>>
    /\ arg[1].game = 0
    /\ arg[1].bet = 200
    /\ arg[1].seed[1] # 49
    /\ arg[1].seed[8] # 0
    /\ res[1].roll = 49
    /\ res[1].won
    /\ res[1].payout = 380

\* C23 (SpecResolve): the dice roll is the first 8 seed bytes, little-endian,
\* modulo 100; with target = config[0] and over = (config[1] = 1) the bet wins
\* iff roll > target (over) or roll < target (under); win_chance is
\* max(1, 99 - target) for over and max(1, target) for under; the gross payout
\* is floor(floor(bet * 9500 / win_chance) / 100) on a win and 0 on a loss.
C23_DiceResolver ==
    (res # <<>> /\ arg[1].game = 2) =>
        LET roll == LeBytesMod100(arg[1].seed, 0)
            target == arg[1].config[1]
            over == arg[1].config[2] = 1
            wins == IF over THEN roll > target ELSE roll < target
            win_chance == IF over THEN Max(1, 99 - target) ELSE Max(1, target)
        IN /\ res[1].roll = roll
           /\ res[1].won <=> wins
           /\ res[1].payout = IF wins
                              THEN ((arg[1].bet * 9500) \div win_chance) \div 100
                              ELSE 0

\* target 50, under, roll 40: 0.02 SOL wins 1.9 times the bet
C23_Witness ==
    /\ res # <<>>
    /\ arg[1].game = 2
    /\ arg[1].config = <<50, 0, 0>>
    /\ arg[1].bet = 200
    /\ res[1].roll = 40
    /\ res[1].won
    /\ res[1].payout = 380

\* the grid's strike, the Chebyshev distance of the target from it, and the
\* number of cells within the radius
GridStrike(seed) == <<seed[1] % 16, seed[2] % 16>>
Chebyshev(p, q) ==
    Max(IF p[1] >= q[1] THEN p[1] - q[1] ELSE q[1] - p[1],
        IF p[2] >= q[2] THEN p[2] - q[2] ELSE q[2] - p[2])
GridArea(radius) == (2 * radius + 1) * (2 * radius + 1)

\* C24 as claimed (SpecResolve): strike = (seed[0] mod 16, seed[1] mod 16), the
\* bet wins iff the Chebyshev distance between strike and target is at most
\* the radius, and the gross payout on a win is
\* bet * floor(256 * 10000 / area) * 0.95 / 10000, rounded down once at the end.
C24_GridRoundedOnce ==
    (res # <<>> /\ arg[1].game = 1) =>
        LET a == arg[1]
            strike == GridStrike(a.seed)
            wins == Chebyshev(strike, <<a.config[1], a.config[2]>>) <= a.config[3]
            area == GridArea(a.config[3])
        IN /\ <<res[1].strike_x, res[1].strike_y>> = strike
           /\ res[1].won <=> wins
           /\ res[1].payout = IF wins
                              THEN MulDivMillion(a.bet, (2560000 \div area) * 95)
                              ELSE 0

\* C24 as amended (SpecResolve): strike and win as claimed; the multiplier
\* floor(256 * 10000 / area) * 95 / 100 is rounded down to whole basis points
\* first, and the gross payout on a win is floor(bet * multiplier / 10000).
C24_GridResolver ==
    (res # <<>> /\ arg[1].game = 1) =>
        LET a == arg[1]
            strike == GridStrike(a.seed)
            wins == Chebyshev(strike, <<a.config[1], a.config[2]>>) <= a.config[3]
            multiplier == ((2560000 \div GridArea(a.config[3])) * 95) \div 100
        IN /\ <<res[1].strike_x, res[1].strike_y>> = strike
           /\ res[1].won <=> wins
           /\ res[1].payout = IF wins
                              THEN a.bet * (multiplier \div 10000)
                                     + (a.bet * (multiplier % 10000)) \div 10000
                              ELSE 0

\* a 6 SOL + 1 unit bet on radius 1 wins 27.0221 times the bet, rounded down,
\* on a strike at distance 1 whose seed bytes are above 16
C24_Witness ==
    /\ res # <<>>
    /\ arg[1].game = 1
    /\ arg[1].config = <<8, 0, 1>>
    /\ arg[1].bet = 60001
    /\ arg[1].seed[1] = 23 /\ arg[1].seed[2] = 16
    /\ res[1].won
    /\ res[1].strike_x = 7 /\ res[1].strike_y = 0
    /\ res[1].payout = 1621353

\* the floors (counted from 1) of an n-floor tower at which the player's lane,
\* bit i of lanes, is the trap lane seed[i] mod 2
TowerHits(seed, n, lanes) ==
    {i + 1 : i \in {j \in 0..(n - 1) : (lanes \div (2 ^ j)) % 2 = seed[j + 1] % 2}}

\* C25 (SpecResolve): on an n-floor tower, n in 1..6, the reported death floor
\* is the lowest floor at which the player's lane is the trap lane, 0 if there
\* is none; the bet wins iff there is none; the gross payout is
\* floor(bet * 95 * 2^n / 100) on a win and 0 otherwise.
C25_TowerResolver ==
    (res # <<>> /\ arg[1].game = 3) =>
        LET a == arg[1]
            n == a.config[1]
            hits == TowerHits(a.seed, n, a.config[2])
        IN /\ n \in 1..6
           /\ hits = {} => res[1].death_floor = 0
           /\ hits # {} => /\ res[1].death_floor \in hits
                           /\ \A f \in hits : res[1].death_floor <= f
           /\ res[1].won <=> hits = {}
           /\ res[1].payout = IF hits = {} THEN (a.bet * 95 * (2 ^ n)) \div 100 ELSE 0

\* lanes [1,0,1] against traps [1,0,1] on three floors: death at floor 1
\* although floors 2 and 3 are trapped too
C25_Witness ==
    /\ res # <<>>
    /\ arg[1].game = 3
    /\ arg[1].config = <<3, 5, 0>>
    /\ arg[1].seed[1] = 255 /\ arg[1].seed[2] = 254 /\ arg[1].seed[3] = 255
    /\ res[1].death_floor = 1
    /\ ~res[1].won
    /\ res[1].payout = 0

\* C26 (SpecEdge): the house edge is 5% on every game.  For every config
\* place_bet accepts some outcome wins, every winning outcome pays the same,
\* and (winning outcomes) * (win payout) is 95% of bet * (outcomes) up to the
\* truncation of the payout: payout = floor(95 * bet * outcomes / (100 * wins)).
C26_HouseEdge ==
    res # <<>> =>
        /\ res[1].wins > 0
        /\ \E payout \in res[1].payouts :
              /\ res[1].payouts = {payout}
              /\ payout = (95 * arg[1].bet * res[1].outcomes) \div (100 * res[1].wins)

\* the delay C27 states for a bet of b units: 0.05 SOL is 500 units
ClaimedDelay(b) == IF b <= 500 THEN 5 ELSE IF b <= 5000 THEN 15 + b \div 500 ELSE 50

\* C27 (SpecDelay): a session created by place_bet at slot s with bet b has
\* commit_slot = s, resolve_slot = s + 5 + d(b), d being 5 up to 0.05 SOL,
\* 15 + floor(b / 0.05 SOL) up to 0.5 SOL and 50 above, and forfeit_slot =
\* s + 1000; so resolve_slot >= commit_slot + 10 and resolve_slot + 2 <
\* forfeit_slot; and of two open sessions the one with the larger bet never
\* has the shorter delay.
C27_ResolveDelay ==
    [][(last'.op = "place_bet" /\ last'.err = "Ok") =>
          LET s == sessions'[last'.sid]
              delay(x) == x.resolve_slot - x.commit_slot
          IN /\ s.open
             /\ s.commit_slot = clock.slot
             /\ s.resolve_slot = clock.slot + 5 + ClaimedDelay(s.bet_lamports)
             /\ s.forfeit_slot = clock.slot + 1000
             /\ s.resolve_slot >= s.commit_slot + 10
             /\ s.resolve_slot + 2 < s.forfeit_slot
             /\ \A sid \in SessionIds :
                   LET o == sessions'[sid]
                   IN o.open =>
                        /\ o.bet_lamports <= s.bet_lamports => delay(o) <= delay(s)
                        /\ o.bet_lamports >= s.bet_lamports => delay(o) >= delay(s)
      ]_vars

\* a bet of 0.1 SOL placed five slots after one of 0.1 SOL less one unit:
\* delays 22 and 21
C27_Witness ==
    /\ last.op = "place_bet"
    /\ last.err = "Ok"
    /\ last.sid = SettleSid(2)
    /\ sessions[SettleSid(1)].open
    /\ sessions[SettleSid(1)].bet_lamports = 2 * MICRO_BET - 1
    /\ sessions[SettleSid(2)].bet_lamports = 2 * MICRO_BET
    /\ sessions[SettleSid(1)].resolve_slot = InitClock.slot + 21
    /\ sessions[SettleSid(2)].resolve_slot = InitClock.slot + 5 + 22

\* C28 (SpecDelegate): a delegated reveal is accepted only when the signer is
\* the delegate of the SessionToken of the session's player and the time is
\* strictly before the token's expires_at, which is at most 86400 seconds
\* after the token was created; the win payout and the jackpot prize are
\* credited to the session's player, and a delegate that is neither the player
\* nor the referrer is credited nothing.
C28_DelegatedReveal ==
    [][(last'.op = "reveal_delegated" /\ last'.err = "Ok") =>
           LET s == sessions[last'.sid]
               p == s.player
               bet == s.bet_lamports
               reserve == pool.jackpot_balance
               triggered == /\ bet >= JACKPOT_MIN_BET
                            /\ reserve >= JACKPOT_MIN_POOL
                            /\ arg'[1].draw < JackpotThreshold(bet)
               prize == IF triggered THEN (reserve * 90) \div 100 ELSE 0
               won == pool'.total_wins = pool.total_wins + 1
               signer == arg'[1].signer
           IN /\ tokens[p] # <<>>
              /\ tokens[p][1].player = p
              /\ tokens[p][1].delegate = signer
              /\ clock.unix_timestamp < tokens[p][1].expires_at
              /\ \E i \in 1..Len(res) :
                    /\ res[i].player = p
                    /\ tokens[p][1].expires_at <= res[i].at + 86400
              /\ lamports'[p] - lamports[p] - SESSION_RENT
                    = (IF won THEN (bet * 190) \div 100 ELSE 0) + prize
              /\ signer \notin {p, s.referrer} => lamports'[signer] = lamports[signer]
              /\ \A w \in Wallets \ {p} : lamports'[w] <= lamports[w]]_vars

\* the session key revealed alice's winning 0.02 SOL bet in the last second
\* of a 24-hour authorization and alice was paid the win and the jackpot
C28_Witness ==
    /\ last.op = "reveal_delegated"
    /\ last.err = "Ok"
    /\ arg # <<>>
    /\ arg[1].signer = "dkey"
    /\ arg[1].draw = 0
    /\ tokens["alice"] # <<>>
    /\ tokens["alice"][1].delegate = "dkey"
    /\ clock.unix_timestamp = tokens["alice"][1].expires_at - 1
    /\ Len(res) > 0
    /\ \E i \in 1..Len(res) : res[i].player = "alice"
                                /\ res[i].at + MAX_SESSION_SECS = tokens["alice"][1].expires_at
    /\ pool.total_wins = 1
    /\ pool.total_jackpot_won = (JACKPOT_MIN_POOL * 90) \div 100
    /\ lamports["dkey"] = MAX_GAS

\* C29 (SpecFees): claim_house_fees(amount) is accepted only if 0 < amount <=
\* house_fees_earned and amount <= the pool account's funds above its rent;
\* it pays exactly amount to the authority, lowers house_fees_earned by exactly
\* amount and leaves total_balance and jackpot_balance unchanged.
\* reinvest_house_fees(amount) lowers house_fees_earned and raises
\* total_balance by exactly amount and leaves the pool account's funds
\* unchanged.
C29_HouseFees ==
    [][/\ (last'.op = "claim_house_fees" /\ last'.err = "Ok") =>
             LET amount == arg'[1].amount
                 authority == pool.authority
             IN /\ 0 < amount
                /\ amount <= pool.house_fees_earned
                /\ amount <= lamports[POOL] - POOL_RENT
                /\ arg'[1].signer = authority
                /\ lamports'[authority] = lamports[authority] + amount
                /\ lamports'[POOL] = lamports[POOL] - amount
                /\ pool'.house_fees_earned = pool.house_fees_earned - amount
                /\ pool'.total_balance = pool.total_balance
                /\ pool'.jackpot_balance = pool.jackpot_balance
       /\ (last'.op = "reinvest_house_fees" /\ last'.err = "Ok") =>
             LET amount == arg'[1].amount
             IN /\ pool'.house_fees_earned = pool.house_fees_earned - amount
                /\ pool'.total_balance = pool.total_balance + amount
                /\ pool'.jackpot_balance = pool.jackpot_balance
                /\ lamports' = lamports]_vars

\* the instructions only the authority, or the proposed authority, may call
GovernanceOps ==
    {"set_paused", "request_withdrawal", "execute_withdrawal", "cancel_withdrawal",
     "propose_authority_transfer", "cancel_authority_transfer",
     "execute_authority_transfer"}

FeeOps == {"claim_house_fees", "reinvest_house_fees"}

\* C30 (SpecFrame): a reveal, delegated reveal, claim_forfeit, emergency_refund or
\* emergency_player_refund, accepted or rejected, leaves every field of every
\* session other than the one it names unchanged, and the governance and fee
\* instructions change no session.
C30_SessionFrame ==
    [][/\ last'.op \in ResolutionOps =>
             \A sid \in SessionIds \ {last'.sid} : sessions'[sid] = sessions[sid]
       /\ last'.op \in GovernanceOps \cup FeeOps => sessions' = sessions]_vars

\* after the withdrawals left less than a win pays, one player's bet was
\* refunded by emergency_player_refund and its account closed while the other
\* player's session stays pending
C30_Witness ==
    /\ last.op = "emergency_player_refund"
    /\ last.err = "Ok"
    /\ ~sessions[last.sid].open
    /\ \E sid \in SessionIds \ {last.sid} :
          /\ Pending(sessions[sid])
          /\ sid[1] # last.sid[1]

\* C31 (SpecWithhold): withholding the reveal gains nothing.  For a session
\* whose fixed seed loses and wins no jackpot, whatever resolves the session
\* pays the player no more than the reveal would: the rent of the closed
\* session account and no part of the bet.
C31_WithholdGainsNothing ==
    [][\A sid \in Observed :
          LET s == sessions[sid]
              seed == res[SeedFor(sid)].seed
              out == Resolve(s.game_type, seed, s)
              prize == JackpotPrize(s.bet_lamports, pool.jackpot_balance, seed)
          IN (Pending(s) /\ ~Pending(sessions'[sid]) /\ ~out.won /\ prize = 0) =>
                 lamports'[s.player] - lamports[s.player] <= SESSION_RENT]_vars

RevealEnabled(sid) ==
    \E nonce \in {n \in 0..10 : Hash(n) = sessions[sid].commitment},
       seed \in {MkSeed(0, 0, 100), MkSeed(99, 0, 100)} :
        reveal(State, clock, sessions[sid].player, sid, nonce, sessions[sid].game_type,
               TRUE, seed).err = "Ok"

\* the player's emergency_refund is accepted in this state
RefundEnabled(sid) == emergency_refund(State, clock, sessions[sid].player, sid).err = "Ok"

\* claim_forfeit is accepted in this state
ForfeitEnabled(sid) == claim_forfeit(State, clock, sid).err = "Ok"

PendingSids == {sid \in DOMAIN sessions : Pending(sessions[sid])}

ForfeitOpen ==
    \A sid \in PendingSids :
        clock.slot > sessions[sid].forfeit_slot + GRACE_SLOTS => ForfeitEnabled(sid)

\* C34 (SpecForfeit): no session stays Pending forever.  In every reachable
\* state claim_forfeit is enabled for every pending session whose grace
\* period is over, whatever the liquid pool, the paused flag and the pending
\* governance requests are; and with a fair clock and a fair claim_forfeit
\* every pending session is eventually resolved.
C34_NoSessionPendingForever ==
    /\ []ForfeitOpen
    /\ \A who \in Bettors :
           Pending(sessions[FrameSid(who)]) ~> ~Pending(sessions[FrameSid(who)])

\* claim_forfeit was accepted on a paused pool with a withdrawal and an
\* authority transfer pending and the liquid pool below the funding
C34_Witness ==
    /\ last.op = "claim_forfeit"
    /\ last.err = "Ok"
    /\ pool.paused
    /\ pool.withdrawal_request # <<>>
    /\ pool.pending_authority # <<>>
    /\ pool.total_balance < TWENTY_SOL

\* C35 (SpecSolvent): a settlement fails its solvency check only after the
\* pool has degraded.  For every pending session, if the recorded liquid pool
\* is at least what it was right after the session's place_bet, then the
\* settlement of the session passes the solvency check on every seed: a win
\* or a loss, with or without a jackpot prize.
C35_SolventUnlessDegraded ==
    \A i \in SolventPending :
        LET sid == SettleSid(i)
            s == sessions[sid]
        IN pool.total_balance >= PlacedLiquid(sid) =>
               \A seed \in SolventSeeds :
                   LET out == Resolve(s.game_type, seed, s)
                   IN settle_outcome(State, s, out.won, out.payout, seed).err
                          # "InsufficientLiquidity"

\* a winning bet was settled, with a jackpot prize, on a pool at least as
\* liquid as right after the bet
C35_Witness ==
    /\ last.op = "reveal"
    /\ last.err = "Ok"
    /\ arg.liquid >= arg.placed_liquid
    /\ arg.won
    /\ arg.prize > 0

RECURSIVE SumOf(_, _)
\* the sum of f over the set S
SumOf(f, S) ==
    IF S = {} THEN 0
    ELSE LET a == CHOOSE x \in S : TRUE
         IN f[a] + SumOf(f, S \ {a})

\* all funds: the pool account, every wallet, and the storage deposits of the
\* open session accounts and session tokens
TotalFunds(lam, sess, toks) ==
    SumOf(lam, Wallets \cup {POOL})
        + SESSION_RENT * Cardinality({sid \in SessionIds : sess[sid].open})
        + TOKEN_RENT * Cardinality({p \in Players : toks[p] # <<>>})

\* what an accepted reveal of session s on seed moves out of the pool account:
\* to the player, to the referrer, and both together
SettlementPaid(s, seed) ==
    LET out == Resolve(s.game_type, seed, s)
        ref_balance == IF s.referrer \in DOMAIN lamports THEN lamports[s.referrer] ELSE 1
        fees == FeeSplit(s, ref_balance)
        prize == JackpotPrize(s.bet_lamports, pool.jackpot_balance, seed)
        to_player == (IF out.won THEN out.payout ELSE 0) + prize
    IN [player |-> to_player, referrer |-> fees.ref_cut, total |-> to_player + fees.ref_cut]

\* C36 (Spec): funds are only moved.  Every step leaves the sum of the pool
\* account, all wallets and the storage deposits unchanged; and an accepted
\* reveal takes from the pool account exactly the win payout, the jackpot
\* prize and the referrer cut, credits the first two and the closed session's
\* deposit to the player and the third to the referrer, and changes no other
\* wallet.
C36_FundsOnlyMoved ==
    [][/\ TotalFunds(lamports', sessions', tokens') = TotalFunds(lamports, sessions, tokens)
       /\ (last'.op \in RevealOps /\ last'.err = "Ok") =>
              LET s == sessions[last'.sid]
              IN \E seed \in SpecSeeds :
                    LET paid == SettlementPaid(s, seed)
                    IN /\ lamports[POOL] - lamports'[POOL] = paid.total
                       /\ \A a \in Wallets :
                             lamports'[a] - lamports[a] =
                                 (IF a = s.player THEN paid.player + SESSION_RENT ELSE 0)
                                   + (IF a = s.referrer THEN paid.referrer ELSE 0)]_vars

\* an accepted reveal paid a win to the player and a cut to the referrer
C36_Witness ==
    /\ last.op \in RevealOps
    /\ last.err = "Ok"
    /\ lamports["ref_rich"] > InitLamports["ref_rich"]
    /\ pool.total_wins = 1

\* the state with the paused flag flipped
PauseFlipped == [State EXCEPT !.pool.paused = ~pool.paused]

\* C37 (SpecFrame): while the pool is paused every place_bet fails, and the
\* paused flag has no effect on any resolution path: a reveal, a delegated
\* reveal, claim_forfeit, emergency_refund and emergency_player_refund of a
\* session are accepted or rejected, with the same error, exactly as in the
\* same state with the flag flipped.
C37_PauseBlocksOnlyBets ==
    /\ pool.paused =>
           \A who \in Bettors, t \in SolventTemplates, c \in Commitments :
               \A bet \in {MIN_BET, get_max_bet(pool.total_balance, t[1])} :
                   place_bet(State, clock, who[1], SYSTEM, t[1], c, bet, t[2]).err # "Ok"
    /\ \A who \in Bettors :
           LET sid == FrameSid(who)
           IN /\ \A seed \in {MkSeed(0, 0, 0), MkSeed(99, 0, 0)} :
                    /\ reveal(State, clock, who[1], sid, who[2], 0, TRUE, seed).err
                         = reveal(PauseFlipped, clock, who[1], sid, who[2], 0, TRUE, seed).err
                    /\ reveal_delegated(State, tokens, clock, "dkey", sid, who[2], 0, TRUE,
                                        seed).err
                         = reveal_delegated(PauseFlipped, tokens, clock, "dkey", sid, who[2],
                                            0, TRUE, seed).err
              /\ claim_forfeit(State, clock, sid).err
                     = claim_forfeit(PauseFlipped, clock, sid).err
              /\ emergency_refund(State, clock, who[1], sid).err
                     = emergency_refund(PauseFlipped, clock, who[1], sid).err
              /\ emergency_player_refund(State, sid).err
                     = emergency_player_refund(PauseFlipped, sid).err

\* a reveal was accepted on a paused pool
C37_Witness ==
    /\ last.op = "reveal"
    /\ last.err = "Ok"
    /\ pool.paused

\* C38 (SpecFrame): the jackpot reserve changes only in an accepted reveal,
\* and an accepted execute_withdrawal leaves jackpot_balance and
\* house_fees_earned unchanged and lowers the recorded liquid pool by exactly
\* the requested amount.
C38_ReservesOutOfReach ==
    [][/\ pool'.jackpot_balance # pool.jackpot_balance =>
              (last'.op \in RevealOps /\ last'.err = "Ok")
       /\ (last'.op = "execute_withdrawal" /\ last'.err = "Ok") =>
              /\ pool'.jackpot_balance = pool.jackpot_balance
              /\ pool'.house_fees_earned = pool.house_fees_earned
              /\ pool'.total_balance
                     = pool.total_balance - pool.withdrawal_request[1].amount]_vars

\* the worst-case payout of the bet of session s
WorstOf(s) ==
    get_worst_payout(s.bet_lamports, s.game_type, <<s.target_x, s.target_y, s.target_radius>>)

\* C39 (SpecThin): a freshly placed bet cannot be pulled back through the
\* insolvency refund.  Right after an accepted place_bet the recorded liquid
\* pool is at least the bet's worst-case payout and emergency_player_refund
\* of the session is rejected; and emergency_player_refund of a pending
\* session is rejected in every state in which the recorded liquid pool is
\* at least the session's worst-case payout.
C39_FreshBetNotRefundable ==
    /\ (last.op = "place_bet" /\ last.err = "Ok") =>
           /\ pool.total_balance >= WorstOf(sessions[last.sid])
           /\ emergency_player_refund(State, last.sid).err # "Ok"
    /\ \A sid \in PendingSids :
           pool.total_balance >= WorstOf(sessions[sid]) =>
               emergency_player_refund(State, sid).err = "InsufficientLiquidity"

\* the liquid pool equals the worst-case payout of a pending bet and
\* emergency_player_refund was rejected
C39_Witness ==
    /\ last.op = "emergency_player_refund"
    /\ last.err = "InsufficientLiquidity"
    /\ Pending(sessions[last.sid])
    /\ pool.total_balance = WorstOf(sessions[last.sid])

\* 1 SOL, a fifth of the survival-mode boundary
ONE_SOL == FIVE_SOL \div 5

\* C40 (SpecBreaker): place_bet succeeds only on a recorded liquid pool of at
\* least 1 SOL.  In every state whose recorded liquid pool is below 1 SOL the
\* maximum bet of every game is below the minimum bet, and place_bet is
\* rejected for either player, every game and config and every bet up to
\* MaxBreakerStake; and every step in which place_bet is accepted starts
\* from a recorded liquid pool of at least 1 SOL.
C40_BelowOneSolRejects ==
    pool.total_balance < ONE_SOL =>
        /\ \A game \in 0..3 : get_max_bet(pool.total_balance, game) < MIN_BET
        /\ \A who \in Bettors, t \in RiskTemplates, bet \in 1..MaxBreakerStake :
               place_bet(State, clock, who[1], SYSTEM, t[1], Hash(9), bet, t[2]).err # "Ok"

C40_NoBetBelowOneSol ==
    /\ []C40_BelowOneSolRejects
    /\ [][(last'.op = "place_bet" /\ last'.err = "Ok" /\ pool'.total_bets = pool.total_bets + 1)
             => pool.total_balance >= ONE_SOL]_vars

\* on a pool between the circuit breaker and 1 SOL a minimum bet was rejected
\* for exceeding the limit
C40_Witness ==
    /\ last.op = "place_bet"
    /\ last.err = "BetExceedsLimit"
    /\ pool.total_balance >= MIN_POOL
    /\ pool.total_balance = ONE_SOL - 1

====
